---- MODULE Spec2Model ----
(***************************************************************************)
(* Verification model of nb_init (pynetbox-initializers).                  *)
(*                                                                         *)
(* The module holds several specifications over one set of variables:     *)
(*   SpecExpand    - name_template.expand_name_template (pure function)    *)
(*   SpecReconcile - initializers.NetboxInitializer against the remote     *)
(*   SpecAPI       - api.NetboxAPI.get_or_create against the remote        *)
(*   SpecMain      - one run of cli.main or of __main__.main               *)
(*   SpecVlans     - initializer.NetboxInitializer.initialize_vlans        *)
(* Each specification leaves the variables of the others untouched.        *)
(***************************************************************************)
EXTENDS Integers, Sequences, FiniteSets, TLC

VARIABLES
    \* name_template.py
    name_template,   \* expand_name_template: the argument
    result,          \* expand_name_template: the returned list
    expand_pc,       \* "input" | "returned" | "raised"
    \* initializers.py (NetboxInitializer) and the remote service it talks to
    yaml_dir,        \* the documents of yaml_dir: [tag -> document]
    nb,              \* the records held by the remote service
    next_id,         \* the identifier the remote service issues next
    pc,              \* "idle" | "running" | "crashed"
    history,         \* the calls made so far: "initialize_all" or an entity tag
    todo,            \* entity names the running call still has to initialise
    item_idx,        \* records of the current document already processed
    status,          \* outcome of each record during the running / last call
    submitted,       \* <<tag, position>> of the create calls of that call
    creates,         \* number of create calls submitted by each call
    failed,          \* number of records of each call that ended in an error
    ids_after,       \* the remote identifiers at the end of each call
    warned,          \* entity names the running / last call warned about
    \* api.py (NetboxAPI)
    primary_ips,     \* NetboxAPI.primary_ips: the deferred primary addresses
    api_log,         \* the calls of get_or_create made so far, with their effects
    \* cli.py and __main__.py (one run of a main), config.py, connection.py
    entry_point,     \* "cli" (nb_init.cli:main) | "__main__" (python -m nb_init)
    args,            \* the settings given by command-line flags
    environ,         \* the settings given by NB_URL, NB_TOKEN, NB_USER, NB_PASSWORD
    file_config,     \* the settings of the configuration file
    reachable,       \* whether requests reach the remote service
    declared,        \* shapes of the records initialize_all has yet to process
    connection,      \* the NetboxConnection of the run, NoConnection before
    main_pc,         \* "start" | "body" | "manager" | "closing" | "exited"
    acquired,        \* number of calls of connect() that returned
    closed,          \* number of calls of close()
    exit_status,     \* what main returned: 0, 1, or None while it runs
    echoed,          \* the messages written so far
    token_requests,  \* the token requests the connection has sent so far
    \* initializer.py (NetboxInitializer.initialize_vlans)
    vlans,           \* initialize_vlans: the argument
    vlan_idx,        \* records of vlans the loop has gone through
    created_vlans,   \* initialize_vlans: the list created_vlans
    vlans_result     \* what initialize_vlans returned, NotReturned before

expVars == <<name_template, result, expand_pc>>

remoteVars == <<nb, next_id>>

runVars == <<yaml_dir, pc, history, todo, item_idx, status,
             submitted, creates, failed, ids_after, warned>>

recVars == <<remoteVars, runVars>>

apiVars == <<primary_ips, api_log>>

mainVars == <<entry_point, args, environ, file_config, reachable, declared,
              connection, main_pc, acquired, closed, exit_status, echoed,
              token_requests>>

vlanVars == <<vlans, vlan_idx, created_vlans, vlans_result>>

vars == <<expVars, recVars, apiVars, mainVars, vlanVars>>

(***************************************************************************)
(* Generic helpers on strings and sequences.                               *)
(***************************************************************************)

\* Python s[i-1]: the i-th character of s (1-based), "" past the end.
Ch(s, i) == IF i >= 1 /\ i <= Len(s) THEN SubSeq(s, i, i) ELSE ""

\* Python s[i-1:j]: characters i..j of s, "" when empty.
Slice(s, i, j) == IF i > j THEN "" ELSE SubSeq(s, i, j)

RECURSIVE Join(_)
\* ''.join(parts)
Join(parts) == IF Len(parts) = 0 THEN "" ELSE Head(parts) \o Join(Tail(parts))

RECURSIVE Flatten(_)
\* concatenation of a sequence of sequences
Flatten(ss) == IF Len(ss) = 0 THEN <<>> ELSE Head(ss) \o Flatten(Tail(ss))

(***************************************************************************)
(* name_template.py                                                        *)
(***************************************************************************)

\* the character class [0-9] of the pattern
IsDigit(c) == c \in {"0", "1", "2", "3", "4", "5", "6", "7", "8", "9"}

RECURSIVE DigitsEnd(_, _)
\* [0-9]+ is greedy: first position at or after i that holds no digit
DigitsEnd(s, i) == IF IsDigit(Ch(s, i)) THEN DigitsEnd(s, i + 1) ELSE i

\* One attempt of the pattern \[([0-9]+)-([0-9]+)\] anchored at position i.
\* ok: whether it matches; a, b: the two groups; last: the position of "]".
MatchAt(s, i) ==
    LET d1 == DigitsEnd(s, i + 1)
        d2 == DigitsEnd(s, d1 + 1)
        ok == /\ Ch(s, i) = "["
              /\ d1 > i + 1
              /\ Ch(s, d1) = "-"
              /\ d2 > d1 + 1
              /\ Ch(s, d2) = "]"
    IN  [ok |-> ok, first |-> i, last |-> d2,
         a |-> Slice(s, i + 1, d1 - 1), b |-> Slice(s, d1 + 1, d2 - 1)]

RECURSIVE Matches(_, _)
\* the leftmost non-overlapping matches of the pattern in s, from position i
Matches(s, i) ==
    IF i > Len(s) THEN <<>>
    ELSE LET m == MatchAt(s, i)
         IN  IF m.ok THEN <<m>> \o Matches(s, m.last + 1)
                     ELSE Matches(s, i + 1)

\* re.findall(r'\[([0-9]+)-([0-9]+)\]', s): the pairs of groups
FindAllRanges(s) ==
    LET ms == Matches(s, 1)
    IN  [k \in 1..Len(ms) |-> <<ms[k].a, ms[k].b>>]

RECURSIVE NextBracket(_, _)
\* first position at or after i that holds a bracket
NextBracket(s, i) ==
    IF i > Len(s) \/ Ch(s, i) \in {"[", "]"} THEN i ELSE NextBracket(s, i + 1)

RECURSIVE AnyBracketMatches(_, _)
\* matches of the looser pattern \[[^\[\]]*\]
AnyBracketMatches(s, i) ==
    IF i > Len(s) THEN <<>>
    ELSE LET j == NextBracket(s, i + 1)
         IN  IF Ch(s, i) = "[" /\ Ch(s, j) = "]"
             THEN <<[first |-> i, last |-> j]>> \o AnyBracketMatches(s, j + 1)
             ELSE AnyBracketMatches(s, i + 1)

\* variant of SplitStatic: the split pattern accepts any bracket pair
SplitStatic_AnyBracket(s) ==
    LET ms == AnyBracketMatches(s, 1)
        n  == Len(ms)
    IN  [k \in 1..(n + 1) |->
            Slice(s,
                  IF k = 1 THEN 1 ELSE ms[k - 1].last + 1,
                  IF k = n + 1 THEN Len(s) ELSE ms[k].first - 1)]

\* re.split(r'\[[0-9]+-[0-9]+\]', s): the text around the matches
SplitStatic(s) ==
    LET ms == Matches(s, 1)
        n  == Len(ms)
    IN  [k \in 1..(n + 1) |->
            Slice(s,
                  IF k = 1 THEN 1 ELSE ms[k - 1].last + 1,
                  IF k = n + 1 THEN Len(s) ELSE ms[k].first - 1)]

DigitVal(c) ==
    CASE c = "0" -> 0 [] c = "1" -> 1 [] c = "2" -> 2 [] c = "3" -> 3
      [] c = "4" -> 4 [] c = "5" -> 5 [] c = "6" -> 6 [] c = "7" -> 7
      [] c = "8" -> 8 [] c = "9" -> 9

RECURSIVE ParseInt(_)
\* int(s) for a string of decimal digits
ParseInt(s) ==
    IF Len(s) = 0 THEN 0
    ELSE ParseInt(Slice(s, 1, Len(s) - 1)) * 10 + DigitVal(Ch(s, Len(s)))

RECURSIVE IntToStr(_)
\* str(n) for n >= 0: decimal digits, no leading zero
IntToStr(n) ==
    IF n < 10 THEN Ch("0123456789", n + 1)
    ELSE IntToStr(n \div 10) \o Ch("0123456789", (n % 10) + 1)

\* variant of RangeValues: a descending pair is walked from its lower end
RangeValues_Unordered(start, end) ==
    LET x == ParseInt(start)
        y == ParseInt(end)
        lo == IF x < y THEN x ELSE y
        hi == IF x < y THEN y ELSE x
    IN  [k \in 1..(hi - lo + 1) |-> lo + k - 1]

\* range(int(start), int(end) + 1) as a sequence
RangeValues(start, end) ==
    LET lo == ParseInt(start)
        hi == ParseInt(end)
    IN  IF lo > hi THEN <<>> ELSE [k \in 1..(hi - lo + 1) |-> lo + k - 1]

RECURSIVE Product(_)
\* itertools.product(*rvs): tuples in lexicographic order, last position
\* advancing fastest
Product(rvs) ==
    IF Len(rvs) = 0 THEN << <<>> >>
    ELSE LET rest == Product(Tail(rvs))
             hd   == Head(rvs)
         IN  Flatten([i \in 1..Len(hd) |->
                        [j \in 1..Len(rest) |-> <<hd[i]>> \o rest[j]]])

\* list.index(x): position of the first element equal to x
IndexOf(seq, x) == CHOOSE k \in 1..Len(seq) :
                      seq[k] = x /\ \A j \in 1..(k - 1) : seq[j] # x

\* the body of the loop "for combination in product(...)": one name
BuildName(ranges, static_parts, combination) ==
    LET n == Len(ranges)
        \* one (static part, range value) pair per range; static_idx = k - 1
        parts == [k \in 1..n |->
                    (IF k - 1 < Len(static_parts) THEN static_parts[k] ELSE "")
                    \o IntToStr(combination[IndexOf(ranges, ranges[k])])]
        remaining == IF n < Len(static_parts) THEN static_parts[n + 1] ELSE ""
    IN  Join(parts) \o remaining

\* variant of expand_name_template: the early return hands back the still
\* empty result list
expand_name_template_EmptyOnNoRange(t) ==
    LET ranges == FindAllRanges(t)
    IN  IF Len(ranges) = 0 THEN <<>>
        ELSE LET static_parts == SplitStatic(t)
                 range_values == [k \in 1..Len(ranges) |->
                                    RangeValues(ranges[k][1], ranges[k][2])]
                 combos == Product(range_values)
             IN  [c \in 1..Len(combos) |->
                    BuildName(ranges, static_parts, combos[c])]

expand_name_template(t) ==
    LET ranges == FindAllRanges(t)
    IN  IF Len(ranges) = 0 THEN <<t>>
        ELSE LET static_parts == SplitStatic(t)
                 range_values == [k \in 1..Len(ranges) |->
                                    RangeValues(ranges[k][1], ranges[k][2])]
                 combos == Product(range_values)
             IN  [c \in 1..Len(combos) |->
                    BuildName(ranges, static_parts, combos[c])]

(***************************************************************************)
(* SpecExpand: the expander applied to bounded templates.                  *)
(***************************************************************************)

\* bound: number of text pieces a template is assembled from
MaxPieces == 4

\* the text pieces templates are assembled from
Pieces == {"Ethernet", "/", "1", "[1-2]", "[2-3]", "[27-32]", "[2-1]",
           "[01-2]", "[a-b]", "[1-x]", "[", "]"}

RECURSIVE TemplatesOf(_)
TemplatesOf(n) ==
    IF n = 0 THEN {""}
    ELSE LET shorter == TemplatesOf(n - 1)
         IN  shorter \cup {p \o t : p \in Pieces, t \in shorter}

Templates == TemplatesOf(MaxPieces)

ExpandInit ==
    /\ name_template \in Templates
    /\ result = <<>>
    /\ expand_pc = "input"

\* a call of expand_name_template(name_template); the function has no
\* raise statement and int() is applied to digit strings only
ExpandNameTemplate ==
    /\ expand_pc = "input"
    /\ result' = expand_name_template(name_template)
    /\ expand_pc' = "returned"
    /\ UNCHANGED name_template

\* the expander at rest, for the specifications that do not run it
ExpandIdle ==
    /\ name_template = ""
    /\ result = <<>>
    /\ expand_pc = "input"

(***************************************************************************)
(* initializers.py: NetboxInitializer                                      *)
(***************************************************************************)

ENTITY_ORDER == <<
    "custom_fields", "custom_links", "tags", "config_templates",
    "webhooks", "tenant_groups", "tenants", "site_groups",
    "regions", "rirs", "asns", "sites",
    "locations", "rack_roles", "racks", "power_panels",
    "power_feeds", "manufacturers", "platforms", "device_roles",
    "device_types", "cluster_types", "cluster_groups", "clusters",
    "prefix_vlan_roles", "vlan_groups", "vlans", "devices",
    "interfaces", "route_targets", "vrfs", "aggregates",
    "virtual_machines", "virtualization_interfaces", "prefixes", "ip_addresses",
    "primary_ips", "services", "service_templates", "providers",
    "circuit_types", "circuits", "cables", "config_contexts",
    "contact_groups", "contact_roles", "contacts" >>

\* the dictionary built by NetboxInitializer._get_endpoint
endpoint_map == [
    custom_fields |-> "extras.custom_fields",
    custom_links |-> "extras.custom_links",
    tags |-> "extras.tags",
    config_templates |-> "extras.config_templates",
    webhooks |-> "extras.webhooks",
    tenant_groups |-> "tenancy.tenant_groups",
    tenants |-> "tenancy.tenants",
    site_groups |-> "dcim.site_groups",
    regions |-> "dcim.regions",
    rirs |-> "ipam.rirs",
    asns |-> "ipam.asns",
    sites |-> "dcim.sites",
    locations |-> "dcim.locations",
    rack_roles |-> "dcim.rack_roles",
    racks |-> "dcim.racks",
    power_panels |-> "dcim.power_panels",
    power_feeds |-> "dcim.power_feeds",
    manufacturers |-> "dcim.manufacturers",
    platforms |-> "dcim.platforms",
    device_roles |-> "dcim.device_roles",
    device_types |-> "dcim.device_types",
    cluster_types |-> "virtualization.cluster_types",
    cluster_groups |-> "virtualization.cluster_groups",
    clusters |-> "virtualization.clusters",
    prefix_vlan_roles |-> "ipam.prefix_vlan_roles",
    vlan_groups |-> "ipam.vlan_groups",
    vlans |-> "ipam.vlans",
    devices |-> "dcim.devices",
    interfaces |-> "dcim.interfaces",
    route_targets |-> "ipam.route_targets",
    vrfs |-> "ipam.vrfs",
    aggregates |-> "ipam.aggregates",
    virtual_machines |-> "virtualization.virtual_machines",
    virtualization_interfaces |-> "virtualization.interfaces",
    prefixes |-> "ipam.prefixes",
    ip_addresses |-> "ipam.ip_addresses",
    primary_ips |-> "ipam.primary_ips",
    services |-> "ipam.services",
    service_templates |-> "ipam.service_templates",
    providers |-> "circuits.providers",
    circuit_types |-> "circuits.circuit_types",
    circuits |-> "circuits.circuits",
    cables |-> "dcim.cables",
    config_contexts |-> "extras.config_contexts",
    contact_groups |-> "tenancy.contact_groups",
    contact_roles |-> "tenancy.contact_roles",
    contacts |-> "tenancy.contacts" ]

\* the value Python's dict.get returns for a missing key
None == "None"

\* variant of _get_endpoint: a tag without entry gets a collection of its
\* own name instead of None
_get_endpoint_Default(entity_name) ==
    IF entity_name \in DOMAIN endpoint_map THEN endpoint_map[entity_name]
    ELSE "dcim." \o entity_name

\* NetboxInitializer._get_endpoint
_get_endpoint(entity_name) ==
    IF entity_name \in DOMAIN endpoint_map THEN endpoint_map[entity_name] ELSE None

\* position of an entity name in ENTITY_ORDER, 0 when it is not listed
Rank(entity_name) ==
    IF \E k \in 1..Len(ENTITY_ORDER) : ENTITY_ORDER[k] = entity_name
    THEN CHOOSE k \in 1..Len(ENTITY_ORDER) : ENTITY_ORDER[k] = entity_name
    ELSE 0

(* Documents.  A document is what yaml.safe_load returns for <tag>.yml:    *)
(*   kind "missing"  the file does not exist                               *)
(*   kind "empty"    None, {}, [] (falsy)                                  *)
(*   kind "scalar"   a string or a number                                  *)
(*   kind "dict"     a mapping: items are (key, item_data) in file order   *)
(*   kind "list"     a sequence: items are item_data in file order         *)
(* item_data has shape "dict" (a mapping, with or without a 'name') or     *)
(* "none" (a null entry).                                                  *)

NoName == "<no name>"

Item(key, shape, name) == [key |-> key, shape |-> shape, name |-> name]

Doc(kind, items) == [kind |-> kind, items |-> items]

\* isinstance(data, dict) or isinstance(data, list), and data truthy
Processable(doc) == doc.kind \in {"dict", "list"}

\* "'name' in item_data" of the sequence branch; None is the outcome
\* TypeError (a null entry is not iterable)
HasNameKey(item) ==
    CASE item.shape = "dict" -> IF item.name # NoName THEN "yes" ELSE "no"
      [] item.shape = "none" -> "TypeError"

\* the name _process_entity passes to _create_item as item_name
LookupName(doc, item) ==
    IF doc.kind = "dict" THEN item.key ELSE item.name

\* the 'name' of item_data when _create_item is called: the mapping branch
\* adds the key as the name of a dict that has none
CreateName(doc, item) ==
    IF doc.kind = "dict" /\ item.shape = "dict" /\ item.name = NoName
    THEN item.key
    ELSE item.name

\* endpoint.get(name=item_name): the records the filter selects
Lookup(endpoint, item_name) ==
    {r \in nb : r.coll = endpoint /\ r.name = item_name}

RemoteIds == {r.id : r \in nb}

\* outcome of NetboxInitializer._create_item for one record, given what the
\* remote service answers: get_ok = FALSE is a failed lookup request,
\* create_ok = FALSE a rejected create request
CreateItemOutcome(endpoint, item_name, item, get_ok, create_ok) ==
    LET existing == Lookup(endpoint, item_name)
    IN  IF ~get_ok THEN "error"
        ELSE IF Cardinality(existing) > 1 THEN "error"
        ELSE IF Cardinality(existing) = 1 THEN "present"
        ELSE IF item.shape # "dict" THEN "error"
        ELSE IF create_ok THEN "created" ELSE "rejected"

\* does _create_item send a create request for this outcome
SendsCreate(outcome) == outcome \in {"created", "rejected"}

\* variant of AfterRecord: the loop is left after the first record that was
\* created
AfterRecord_ReturnOnCreate(n_items, idx, outcome) ==
    IF idx < n_items /\ outcome # "created" THEN "next_record" ELSE "next_entity"

\* the for loops of _process_entity: what follows the record at idx
AfterRecord(n_items, idx, outcome) ==
    IF idx < n_items THEN "next_record" ELSE "next_entity"

(* ------------------------------ actions -------------------------------- *)

\* bound: number of calls made on the initializer
MaxCalls == 2
\* bound: records per document
MaxRecords == 2

Names == {"n1", "n2"}

\* tags that may have a document; every other tag has no file
DocTags == {"sites", "devices", "widgets"}

\* tags initialize_entity is called with directly
DirectTags == {"widgets"}

DictItems(key) ==
    {Item(key, "dict", n) : n \in Names \cup {NoName}} \cup {Item(key, "none", NoName)}

ListItems ==
    {Item("", "dict", n) : n \in Names \cup {NoName}}
        \cup {Item("", "none", NoName)}

RECURSIVE SeqsUpTo(_, _)
\* the non-empty sequences over S of length at most n
SeqsUpTo(S, n) ==
    IF n = 0 THEN {}
    ELSE LET shorter == SeqsUpTo(S, n - 1)
         IN  {<<x>> : x \in S} \cup {<<x>> \o t : x \in S, t \in shorter}

KeysDistinct(items) ==
    \A i, j \in 1..Len(items) : i # j => items[i].key # items[j].key

MappingDocs ==
    {Doc("dict", items) : items \in
        {q \in SeqsUpTo(UNION {DictItems(k) : k \in Names}, MaxRecords) : KeysDistinct(q)}}

ListDocs == {Doc("list", items) : items \in SeqsUpTo(ListItems, MaxRecords)}

OtherDocs == {Doc("missing", <<>>), Doc("empty", <<>>), Doc("scalar", <<>>)}

\* the documents of the devices: missing, or one record
SmallDocs ==
    {Doc("missing", <<>>),
     Doc("dict", <<Item("n1", "dict", NoName)>>)}

Record(coll, id, name) == [coll |-> coll, id |-> id, name |-> name]

\* what the remote service may hold before the first call
InitialRemotes == {{}, {Record("dcim.sites", 1, "n1")}}

Pending(dir) ==
    [p \in {<<t, i>> : t \in DocTags, i \in 1..MaxRecords} |->
        IF p[2] <= Len(dir[p[1]].items) THEN "pending" ELSE "none"]

\* the directories the model starts from
Directories ==
    {[t \in DocTags |-> CASE t = "sites" -> s [] t = "devices" -> d [] OTHER -> w] :
        s \in MappingDocs \cup ListDocs \cup OtherDocs, d \in SmallDocs,
        w \in {Doc("dict", <<Item("n1", "dict", NoName)>>)}}

RecInit ==
    /\ yaml_dir \in Directories
    /\ nb \in InitialRemotes
    /\ next_id = Cardinality(nb) + 1
    /\ pc = "idle"
    /\ history = <<>>
    /\ todo = <<>>
    /\ item_idx = 0
    /\ status = Pending(yaml_dir)
    /\ submitted = {}
    /\ creates = <<>>
    /\ failed = <<>>
    /\ ids_after = <<>>
    /\ warned = {}

\* the document of a tag; tags outside DocTags have no file
DocOf(tag) == IF tag \in DocTags THEN yaml_dir[tag] ELSE Doc("missing", <<>>)

BeginCall(name, entities) ==
    /\ pc = "idle"
    /\ Len(history) < MaxCalls
    /\ history' = Append(history, name)
    /\ creates' = Append(creates, 0)
    /\ failed' = Append(failed, 0)
    /\ ids_after' = Append(ids_after, RemoteIds)
    /\ todo' = entities
    /\ item_idx' = 0
    /\ status' = Pending(yaml_dir)
    /\ submitted' = {}
    /\ warned' = {}
    /\ pc' = "running"
    /\ UNCHANGED <<yaml_dir, nb, next_id>>

\* initialize_all(): every entity of ENTITY_ORDER, in order
InitializeAll == BeginCall("initialize_all", ENTITY_ORDER)

\* initialize_entity(entity_name) called on its own
InitializeEntity == \E tag \in DirectTags : BeginCall(tag, <<tag>>)

\* the number of entities from position k on whose file is missing, or whose
\* document is empty or of the wrong shape, up to the first that can be
\* processed
RECURSIVE SkippedFrom(_, _)
SkippedFrom(entities, k) ==
    IF k > Len(entities) \/ Processable(DocOf(entities[k]))
    THEN 0
    ELSE 1 + SkippedFrom(entities, k + 1)

\* variant of SkippedPrefix: every entity that is left is skipped
SkippedPrefix_All(entities) == Len(entities)

SkippedPrefix(entities) == SkippedFrom(entities, 1)

\* initialize_entity for a tag whose file is missing, or whose document is
\* empty or of the wrong shape: a warning, nothing else.  The calls for
\* consecutive such tags are taken as one step.
SkipDocument ==
    /\ pc = "running"
    /\ todo # <<>>
    /\ ~Processable(DocOf(Head(todo)))
    /\ LET n == SkippedPrefix(todo)
       IN  /\ warned' = warned \cup {todo[k] : k \in 1..n}
           /\ todo' = SubSeq(todo, n + 1, Len(todo))
    /\ item_idx' = 0
    /\ UNCHANGED <<yaml_dir, nb, next_id, pc, history, status, submitted,
                   creates, failed, ids_after>>

\* _process_entity for a tag without endpoint: return at once
SkipUnsupported ==
    /\ pc = "running"
    /\ todo # <<>>
    /\ Processable(DocOf(Head(todo)))
    /\ _get_endpoint(Head(todo)) = None
    /\ todo' = Tail(todo)
    /\ item_idx' = 0
    /\ UNCHANGED <<yaml_dir, nb, next_id, pc, history, status, submitted,
                   creates, failed, ids_after, warned>>

\* outcomes _create_item reports as an error
IsError(outcome) == outcome \in {"error", "rejected", "raised"}

\* leave the record at idx with the given outcome and move on in the loop
Advance(tag, doc, idx, outcome) ==
    /\ status' = [status EXCEPT ![<<tag, idx>>] = outcome]
    /\ failed' = IF IsError(outcome)
                 THEN [failed EXCEPT ![Len(failed)] = @ + 1]
                 ELSE failed
    /\ IF AfterRecord(Len(doc.items), idx, outcome) = "next_record"
       THEN item_idx' = idx /\ todo' = todo
       ELSE item_idx' = 0 /\ todo' = Tail(todo)

\* one iteration of the loops of _process_entity: the next record of the
\* current document, with the call of _create_item it makes
ProcessRecord ==
    /\ pc = "running"
    /\ todo # <<>>
    /\ Processable(DocOf(Head(todo)))
    /\ _get_endpoint(Head(todo)) # None
    /\ LET tag  == Head(todo)
           doc  == DocOf(tag)
           idx  == item_idx + 1
           item == doc.items[idx]
           endpoint == _get_endpoint(tag)
       IN  IF doc.kind = "list" /\ HasNameKey(item) = "TypeError"
           THEN \* the membership test raises outside any try block
                /\ pc' = "crashed"
                /\ status' = [status EXCEPT ![<<tag, idx>>] = "raised"]
                /\ failed' = [failed EXCEPT ![Len(failed)] = @ + 1]
                /\ UNCHANGED <<nb, next_id, todo, item_idx, submitted, creates>>
           ELSE IF doc.kind = "list" /\ HasNameKey(item) = "no"
           THEN \* warning, continue
                /\ Advance(tag, doc, idx, "skipped")
                /\ UNCHANGED <<nb, next_id, pc, submitted, creates>>
           ELSE \E get_ok, create_ok \in BOOLEAN :
                LET outcome == CreateItemOutcome(endpoint, LookupName(doc, item),
                                                 item, get_ok, create_ok)
                IN  /\ Advance(tag, doc, idx, outcome)
                    /\ IF SendsCreate(outcome)
                       THEN /\ submitted' = submitted \cup {<<tag, idx>>}
                            /\ creates' = [creates EXCEPT ![Len(creates)] = @ + 1]
                       ELSE UNCHANGED <<submitted, creates>>
                    /\ IF outcome = "created"
                       THEN /\ nb' = nb \cup {Record(endpoint, next_id, CreateName(doc, item))}
                            /\ next_id' = next_id + 1
                       ELSE UNCHANGED <<nb, next_id>>
                    /\ pc' = pc
    /\ UNCHANGED <<yaml_dir, history, ids_after, warned>>

\* the running call returns (or its exception has reached the caller)
Return ==
    /\ \/ pc = "running" /\ todo = <<>>
       \/ pc = "crashed"
    /\ pc' = "idle"
    /\ todo' = <<>>
    /\ item_idx' = 0
    /\ ids_after' = [ids_after EXCEPT ![Len(ids_after)] = RemoteIds]
    /\ UNCHANGED <<yaml_dir, nb, next_id, history, status, submitted, creates,
                   failed, warned>>

RecNext ==
    \/ InitializeAll
    \/ InitializeEntity
    \/ SkipDocument
    \/ SkipUnsupported
    \/ ProcessRecord
    \/ Return

\* an empty remote service, for the specifications that do not use one
RemoteIdle ==
    /\ nb = {}
    /\ next_id = 1

\* the initializer at rest, for the specifications that do not run it
RunIdle ==
    /\ yaml_dir = [t \in DocTags |-> Doc("missing", <<>>)]
    /\ pc = "idle"
    /\ history = <<>>
    /\ todo = <<>>
    /\ item_idx = 0
    /\ status = Pending(yaml_dir)
    /\ submitted = {}
    /\ creates = <<>>
    /\ failed = <<>>
    /\ ids_after = <<>>
    /\ warned = {}

(***************************************************************************)
(* nb_endpoints.py, transformations.py                                     *)
(***************************************************************************)

\* the dictionary built by nb_endpoints.get_endpoint
nb_endpoint_map == [
    custom_fields |-> "extras.custom_fields",
    custom_links |-> "extras.custom_links",
    tags |-> "extras.tags",
    config_templates |-> "extras.config_templates",
    webhooks |-> "extras.webhooks",
    tenant_groups |-> "tenancy.tenant_groups",
    tenants |-> "tenancy.tenants",
    site_groups |-> "dcim.site_groups",
    regions |-> "dcim.regions",
    rirs |-> "ipam.rirs",
    asns |-> "ipam.asns",
    sites |-> "dcim.sites",
    locations |-> "dcim.locations",
    rack_roles |-> "dcim.rack_roles",
    racks |-> "dcim.racks",
    power_panels |-> "dcim.power_panels",
    power_feeds |-> "dcim.power_feeds",
    manufacturers |-> "dcim.manufacturers",
    platforms |-> "dcim.platforms",
    device_roles |-> "dcim.device_roles",
    device_types |-> "dcim.device_types",
    cluster_types |-> "virtualization.cluster_types",
    cluster_groups |-> "virtualization.cluster_groups",
    clusters |-> "virtualization.clusters",
    prefix_vlan_roles |-> "ipam.roles",
    vlan_groups |-> "ipam.vlan_groups",
    vlans |-> "ipam.vlans",
    devices |-> "dcim.devices",
    interfaces |-> "dcim.interfaces",
    route_targets |-> "ipam.route_targets",
    vrfs |-> "ipam.vrfs",
    aggregates |-> "ipam.aggregates",
    virtual_machines |-> "virtualization.virtual_machines",
    virtualization_interfaces |-> "virtualization.interfaces",
    prefixes |-> "ipam.prefixes",
    ip_addresses |-> "ipam.ip_addresses",
    primary_ips |-> "ipam.primary_ips",
    services |-> "ipam.services",
    service_templates |-> "ipam.service_templates",
    providers |-> "circuits.providers",
    circuit_types |-> "circuits.circuit_types",
    circuits |-> "circuits.circuits",
    cables |-> "dcim.cables",
    config_contexts |-> "extras.config_contexts",
    contact_groups |-> "tenancy.contact_groups",
    contact_roles |-> "tenancy.contact_roles",
    contacts |-> "tenancy.contacts",
    interface_templates |-> "dcim.interface_templates" ]

\* nb_endpoints.get_endpoint
get_endpoint(entity_name) ==
    IF entity_name \in DOMAIN nb_endpoint_map THEN nb_endpoint_map[entity_name] ELSE None

(* Declared records and request payloads are Python dicts: functions from  *)
(* field names to values.  Identifiers inside payloads are written "#n".   *)

Has(d, k) == k \in DOMAIN d
Pop(d, k) == [f \in DOMAIN d \ {k} |-> d[f]]
Put(d, k, v) == [f \in DOMAIN d \cup {k} |-> IF f = k THEN v ELSE d[f]]
\* d.get(k)
GetOrNone(d, k) == IF Has(d, k) THEN d[k] ELSE None

\* the value None where a dict is expected
NoneData == [none |-> None]

IdStr(n) == "#" \o IntToStr(n)

\* the transform_<entity> static methods of EntityTransformer: one per
\* entity of ENTITY_ORDER
TransformerMethods == {"transform_" \o ENTITY_ORDER[k] : k \in 1..Len(ENTITY_ORDER)}

\* EntityTransformer.transform_custom_fields
transform_custom_fields(data) ==
    IF Has(data, "on_objects")
    THEN Put(Pop(data, "on_objects"), "object_types", data["on_objects"])
    ELSE data

\* a call of transformer.transform_<entity>(data); every method but
\* transform_custom_fields returns its argument
CallTransformer(method, data) ==
    IF method = "transform_custom_fields" /\ data # NoneData
    THEN transform_custom_fields(data)
    ELSE data

\* EntityTransformer.transform
transform(entity_name, data) ==
    IF ("transform_" \o entity_name) \in TransformerMethods
    THEN CallTransformer("transform_" \o entity_name, data)
    ELSE NoneData

\* EntityTransformer.get_transformer: the name of the method it returns
get_transformer(entity_name) ==
    IF ("transform_" \o entity_name) \in TransformerMethods
    THEN "transform_" \o entity_name
    ELSE "transform_custom_fields"

(***************************************************************************)
(* nb_naming.py                                                            *)
(***************************************************************************)

ENTITY_UNIQUE_NAME ==
    [asns |-> "asn", ip_addresses |-> "address", device_types |-> "model"]

\* get_unique_name: the attribute that names an item of the entity, None
\* when the item does not have it
get_unique_name(entity_name, item_data) ==
    IF entity_name \in DOMAIN ENTITY_UNIQUE_NAME
       /\ Has(item_data, ENTITY_UNIQUE_NAME[entity_name])
    THEN ENTITY_UNIQUE_NAME[entity_name]
    ELSE None

(***************************************************************************)
(* api.py: NetboxAPI                                                       *)
(***************************************************************************)

\* the attributes hasattr(self, ...) finds on a NetboxAPI
ApiAttributes ==
    {"connection", "api", "transformer", "primary_ips",
     "_look_primary_ip_address", "get_device_types", "get_device_role",
     "get_site", "get_device", "get_interface", "get_ip_addresses",
     "get_prefixes", "_get_first_by_name", "get_or_create", "create_device",
     "create_device_type", "create_interface_templates", "create_ip_addresses",
     "create_vlan", "create_prefix", "create_vlan_group",
     "create_prefix_vlan_role", "create_cluster_type", "create_cluster_group",
     "create_cluster", "create_virtual_machine",
     "create_virtualization_interface", "create_asn", "create_rir",
     "create_region", "create_site_group", "create_tenant",
     "create_tenant_group", "create_webhook", "create_config_template",
     "create_custom_field", "create_custom_link", "create_cable", "create_tag"}

\* the create methods that transform their argument and submit it to one
\* collection, with the transformer method and the collection each one uses
SimpleCreate == [
    create_vlan |-> <<"transform_vlans", "ipam.vlans">>,
    create_prefix |-> <<"transform_prefixes", "ipam.prefixes">>,
    create_vlan_group |-> <<"transform_vlan_groups", "ipam.vlan_groups">>,
    create_prefix_vlan_role |-> <<"transform_prefix_vlan_roles", "ipam.prefix_vlan_roles">>,
    create_cluster_type |-> <<"transform_cluster_types", "virtualization.cluster_types">>,
    create_cluster_group |-> <<"transform_cluster_groups", "virtualization.cluster_groups">>,
    create_cluster |-> <<"transform_clusters", "virtualization.clusters">>,
    create_virtual_machine |-> <<"transform_virtual_machines", "virtualization.virtual_machines">>,
    create_virtualization_interface |-> <<"transform_virtualization_interfaces", "virtualization.interfaces">>,
    create_asn |-> <<"transform_asns", "ipam.asns">>,
    create_rir |-> <<"transform_rirs", "ipam.rirs">>,
    create_region |-> <<"transform_regions", "dcim.regions">>,
    create_site_group |-> <<"transform_site_groups", "dcim.site_groups">>,
    create_tenant |-> <<"transform_tenants", "dcim.tenants">>,
    create_tenant_group |-> <<"transform_tenant_groups", "dcim.tenant_groups">>,
    create_webhook |-> <<"transform_webhooks", "extras.webhooks">>,
    create_config_template |-> <<"transform_config_templates", "extras.config_templates">>,
    create_custom_field |-> <<"transform_custom_fields", "extras.custom_fields">>,
    create_custom_link |-> <<"transform_custom_links", "extras.custom_links">>,
    create_cable |-> <<"transform_cables", "dcim.cables">>,
    create_tag |-> <<"transform_tags", "extras.tags">> ]

\* str.endswith
EndsWith(str, suffix) ==
    Len(str) >= Len(suffix)
        /\ Slice(str, Len(str) - Len(suffix) + 1, Len(str)) = suffix

Suffixes == <<"_types", "_groups", "_roles", "_feeds",
              "_types_", "_groups_", "_roles_", "_feeds_">>

\* the "singular form" get_or_create derives from an entity type: a final
\* "s" is dropped, then the first suffix of the list that ends the rest
SingularName(entity_type) ==
    LET singular == IF EndsWith(entity_type, "s")
                    THEN Slice(entity_type, 1, Len(entity_type) - 1)
                    ELSE entity_type
        hits == {k \in 1..Len(Suffixes) : EndsWith(singular, Suffixes[k])}
    IN  IF hits = {} THEN singular
        ELSE LET k == CHOOSE m \in hits : \A n \in hits : m <= n
             IN  Slice(singular, 1, Len(singular) - Len(Suffixes[k]))

\* the method name get_or_create ends up with for a prefix "get_" / "create_"
MethodName(prefix, entity_type) ==
    IF (prefix \o entity_type) \in ApiAttributes
    THEN prefix \o entity_type
    ELSE prefix \o SingularName(entity_type)

(* The remote service.  A record is [coll, id, attrs]: the collection that *)
(* holds it, its identifier and the attributes it was created with.        *)

NoValue == "<absent>"

RemoteRecord(coll, id, attrs) == [coll |-> coll, id |-> id, attrs |-> attrs]

\* the device an interface or an address belongs to: its own 'device', or
\* the device of the interface it is assigned to
DeviceOf(remote, r) ==
    IF Has(r.attrs, "device") THEN r.attrs["device"]
    ELSE IF Has(r.attrs, "assigned_object_id")
         THEN LET owners == {i \in remote : /\ i.coll = "dcim.interfaces"
                                            /\ IdStr(i.id) = r.attrs["assigned_object_id"]
                                            /\ Has(i.attrs, "device")}
              IN  IF owners = {} THEN NoValue
                  ELSE (CHOOSE i \in owners : TRUE).attrs["device"]
         ELSE NoValue

\* the value a filter on field f sees in record r
FilterValue(remote, r, f) ==
    IF f = "device" THEN DeviceOf(remote, r)
    ELSE IF Has(r.attrs, f) THEN r.attrs[f] ELSE NoValue

\* endpoint.filter(**filters)
RemoteFilter(remote, coll, filters) ==
    {r \in remote : /\ r.coll = coll
                    /\ \A f \in DOMAIN filters : FilterValue(remote, r, f) = filters[f]}

\* endpoint.get(**filters): None, the record, or ValueError when the filter
\* selects several records
RemoteGet(remote, coll, filters) ==
    LET found == RemoteFilter(remote, coll, filters)
    IN  IF found = {} THEN [st |-> "none"]
        ELSE IF Cardinality(found) = 1
             THEN [st |-> "one", rec |-> CHOOSE r \in found : TRUE]
             ELSE [st |-> "raise"]

\* a query of a lookup: the collection asked and the filters given to
\* endpoint.get
Query(coll, filters) == [coll |-> coll, filters |-> filters]

\* the lookup that asks no collection
NoQuery == Query(None, NoneData)

\* NetboxAPI._get_first_by_name: the query it makes
first_by_name_query(entity_name, name) ==
    IF get_endpoint(entity_name) = None THEN NoQuery
    ELSE Query(get_endpoint(entity_name), [name |-> name])

\* NetboxAPI._get_first_by_name
_get_first_by_name(remote, entity_name, name) ==
    IF first_by_name_query(entity_name, name) = NoQuery THEN [st |-> "none"]
    ELSE RemoteGet(remote, first_by_name_query(entity_name, name).coll,
                   first_by_name_query(entity_name, name).filters)

\* NetboxAPI.get_device_role: every exception becomes None
get_device_role(remote, name) ==
    LET r == RemoteGet(remote, "dcim.device_roles", [name |-> name])
    IN  IF r.st = "raise" THEN [st |-> "none"] ELSE r

\* NetboxAPI.get_interface: the first interface of the device with the name
get_interface(remote, name, device) ==
    LET found == RemoteFilter(remote, "dcim.interfaces",
                              [name |-> name, device |-> device])
    IN  IF found = {} THEN [st |-> "none"]
        ELSE [st |-> "one",
              rec |-> CHOOSE r \in found : \A o \in found : r.id <= o.id]

\* NetboxAPI.get_device
get_device(remote, name) == RemoteGet(remote, "dcim.devices", [name |-> name])

\* NetboxAPI._look_primary_ip_address: the first queued entry of the address
_look_primary_ip_address(queue, ip_address) ==
    LET hits == {k \in 1..Len(queue) : queue[k].ip4 = ip_address}
    IN  IF hits = {} THEN [st |-> "none"]
        ELSE [st |-> "one",
              entry |-> queue[CHOOSE k \in hits : \A m \in hits : k <= m]]

(* The state a call works on: the remote records, the next identifier, the *)
(* deferred queue, and what the call did so far: the create and update     *)
(* requests it sent (reqs) and the entity tags it resolved references      *)
(* through (refs).                                                         *)

Work(remote, nid, queue) ==
    [nb |-> remote, next_id |-> nid, primary_ips |-> queue,
     reqs |-> <<>>, refs |-> {}]

Request(op, coll, payload, ok) ==
    [op |-> op, coll |-> coll, payload |-> payload, ok |-> ok]

\* endpoint.create(**payload): the record is stored when the service accepts
SendCreate(w, coll, payload, ok) ==
    IF ok
    THEN [w EXCEPT !.nb = @ \cup {RemoteRecord(coll, w.next_id, payload)},
                   !.next_id = @ + 1,
                   !.reqs = Append(@, Request("create", coll, payload, TRUE))]
    ELSE [w EXCEPT !.reqs = Append(@, Request("create", coll, payload, FALSE))]

\* endpoint.update(record): the stored record takes the new attributes
SendUpdate(w, rec, attrs, ok) ==
    IF ok
    THEN [w EXCEPT !.nb = (@ \ {rec}) \cup {RemoteRecord(rec.coll, rec.id, attrs)},
                   !.reqs = Append(@, Request("update", rec.coll, attrs, TRUE))]
    ELSE [w EXCEPT !.reqs = Append(@, Request("update", rec.coll, attrs, FALSE))]

\* what a method hands back: the work state and the returned record's
\* identifier, 0 for None
Returned(w, id) == [w |-> w, ret |-> id]

\* variant of the loop of create_device: the primary address is handled
\* before the references
DeviceProperties_PrimaryFirst ==
    <<"primary_ip4", "device_type", "role", "site", "location", "rack",
      "config_template">>

DeviceProperties == <<"device_type", "role", "site", "location", "rack",
                      "config_template", "primary_ip4">>

\* the entity tag create_device resolves a property through
PropertyTag(device_property) == device_property \o "s"

RECURSIVE ResolveDeviceProperties(_, _, _)
\* the for loop of create_device from position k on: ok = FALSE is the
\* "return None" of an unresolved property
ResolveDeviceProperties(w, data, k) ==
    IF k > Len(DeviceProperties) THEN [ok |-> TRUE, w |-> w, data |-> data]
    ELSE LET prop == DeviceProperties[k]
         IN  IF ~Has(data, prop) THEN ResolveDeviceProperties(w, data, k + 1)
             ELSE IF prop = "primary_ip4"
             THEN ResolveDeviceProperties(
                      [w EXCEPT !.primary_ips =
                          Append(@, [ip4 |-> data["primary_ip4"],
                                     device |-> GetOrNone(data, "name")])],
                      Pop(data, "primary_ip4"), k + 1)
             ELSE LET found == _get_first_by_name(w.nb, PropertyTag(prop), data[prop])
                      w2 == [w EXCEPT !.refs = @ \cup {PropertyTag(prop)}]
                  IN  IF found.st = "one"
                      THEN ResolveDeviceProperties(
                               w2, Put(data, prop, IdStr(found.rec.id)), k + 1)
                      ELSE [ok |-> FALSE, w |-> w2, data |-> data]

\* NetboxAPI.create_device
create_device(w, device_data, ans) ==
    IF device_data = NoneData THEN Returned(w, 0)
    ELSE LET r == ResolveDeviceProperties(w, device_data, 1)
         IN  IF ~r.ok THEN Returned(r.w, 0)
             ELSE LET w2 == SendCreate(r.w, "dcim.devices", r.data, ans.create_ok)
                  IN  Returned(w2, IF ans.create_ok THEN r.w.next_id ELSE 0)

\* the work state with one more entity tag resolved through
WithRef(w, tag) == [w EXCEPT !.refs = @ \cup {tag}]

\* "device = None": create_ip_addresses found no 'device' in the data
NoDevice == RemoteRecord("", 0, [name |-> None])

\* create_ip_addresses from the create request on: the request, then the
\* search of the deferred queue and the update of the device
\* variant of the creation of an address: the device of the address is
\* re-submitted whenever the queue holds a deferral for the address
ip_create_AnyDevice(w, data, device, ans) ==
    LET created == SendCreate(w, "ipam.ip_addresses", data, ans.create_ok)
    IN  IF ~ans.create_ok THEN Returned(created, 0)
        ELSE IF ~Has(data, "address") THEN Returned(created, 0)
        ELSE LET is_assigned == _look_primary_ip_address(w.primary_ips, data["address"])
             IN  IF is_assigned.st = "one" /\ device # NoDevice
                 THEN Returned(
                          SendUpdate(created, device,
                                     Put(device.attrs, "primary_ip4", IdStr(w.next_id)),
                                     ans.update_ok),
                          IF ans.update_ok THEN w.next_id ELSE 0)
                 ELSE Returned(created, w.next_id)

ip_create(w, data, device, ans) ==
    LET created == SendCreate(w, "ipam.ip_addresses", data, ans.create_ok)
    IN  IF ~ans.create_ok THEN Returned(created, 0)
        ELSE IF ~Has(data, "address") THEN Returned(created, 0)  \* KeyError
        ELSE LET is_assigned == _look_primary_ip_address(w.primary_ips, data["address"])
             IN  IF /\ is_assigned.st = "one"
                    /\ device # NoDevice
                    /\ GetOrNone(device.attrs, "name") = is_assigned.entry.device
                 THEN Returned(
                          SendUpdate(created, device,
                                     Put(device.attrs, "primary_ip4", IdStr(w.next_id)),
                                     ans.update_ok),
                          IF ans.update_ok THEN w.next_id ELSE 0)
                 ELSE Returned(created, w.next_id)

\* create_ip_addresses from "if 'vrf' in transformed_data" on
ip_vrf(w, data, device, ans) ==
    IF ~Has(data, "vrf") THEN ip_create(w, data, device, ans)
    ELSE LET ip_vrf_found == _get_first_by_name(w.nb, "vrfs", data["vrf"])
         IN  IF ip_vrf_found.st # "one" THEN Returned(WithRef(w, "vrfs"), 0)
             ELSE ip_create(WithRef(w, "vrfs"),
                            Put(data, "vrf", IdStr(ip_vrf_found.rec.id)), device, ans)

\* create_ip_addresses from "if device and 'interface' in transformed_data" on
ip_interface(w, data, device, ans) ==
    IF device = NoDevice \/ ~Has(data, "interface") THEN ip_vrf(w, data, device, ans)
    ELSE LET ip_interface_found == get_interface(w.nb, data["interface"],
                                                 GetOrNone(device.attrs, "name"))
         IN  IF ip_interface_found.st # "one"
             THEN Returned(WithRef(w, "interfaces"), 0)
             ELSE ip_vrf(WithRef(w, "interfaces"),
                         Put(Pop(data, "interface"), "assigned_object_id",
                             IdStr(ip_interface_found.rec.id)),
                         device, ans)

\* NetboxAPI.create_ip_addresses
create_ip_addresses(w, ip_data, ans) ==
    IF ip_data = NoneData THEN Returned(w, 0)
    ELSE IF ~Has(ip_data, "device") THEN ip_interface(w, ip_data, NoDevice, ans)
    ELSE LET device == get_device(w.nb, ip_data["device"])
         IN  IF device.st # "one" THEN Returned(WithRef(w, "devices"), 0)
             ELSE ip_interface(WithRef(w, "devices"), Pop(ip_data, "device"),
                               device.rec, ans)

\* one of the create methods of SimpleCreate
simple_create(w, method, data, ans) ==
    LET transformed == CallTransformer(SimpleCreate[method][1], data)
    IN  IF transformed = NoneData THEN Returned(w, 0)  \* create(**None)
        ELSE LET w2 == SendCreate(w, SimpleCreate[method][2], transformed, ans.create_ok)
             IN  Returned(w2, IF ans.create_ok THEN w.next_id ELSE 0)

\* NetboxAPI.create_interface_templates: transformer.transform_interface_templates
\* does not exist, the AttributeError is caught and None returned
create_interface_templates(w, interface_data, ans) ==
    IF "transform_interface_templates" \in TransformerMethods
    THEN LET w2 == SendCreate(w, get_endpoint("interface_templates"),
                              interface_data, ans.create_ok)
         IN  Returned(w2, IF ans.create_ok THEN w.next_id ELSE 0)
    ELSE Returned(w, 0)

\* create_device_type, the loop over the names a name template expands to:
\* each name is put into the descriptor, which is handed to
\* create_interface_templates
RECURSIVE create_named_templates(_, _, _, _, _)
create_named_templates(w, intf_template, names, k, ans) ==
    IF k > Len(names) THEN w
    ELSE create_named_templates(
             create_interface_templates(
                 w, Put(intf_template, "name", names[k]), ans).w,
             intf_template, names, k + 1, ans)

\* create_device_type, the body of the loop over the descriptors: the
\* descriptor already carries the identifier of the device type
create_templates_of(w, intf_template, ans) ==
    IF Has(intf_template, "name_template")
    THEN create_named_templates(
             w, intf_template,
             expand_name_template(intf_template["name_template"]), 1, ans)
    ELSE create_interface_templates(w, intf_template, ans).w

\* create_device_type, the loop over transformed_data['interfaces']
RECURSIVE create_interfaces(_, _, _, _, _)
create_interfaces(w, interfaces, k, device_id, ans) ==
    IF k > Len(interfaces) THEN w
    ELSE create_interfaces(
             create_templates_of(
                 w, Put(interfaces[k], "device_type", device_id), ans),
             interfaces, k + 1, device_id, ans)

\* NetboxAPI.create_device_type; the interface templates of the type are
\* handed to create_interface_templates after the type is created
create_device_type(w, device_type_data, ans) ==
    IF device_type_data = NoneData THEN Returned(w, 0)
    ELSE
    LET has_mf == Has(device_type_data, "manufacturer")
        mf == IF has_mf
              THEN _get_first_by_name(w.nb, "manufacturers", device_type_data["manufacturer"])
              ELSE [st |-> "none"]
        w1 == IF has_mf THEN [w EXCEPT !.refs = @ \cup {"manufacturers"}] ELSE w
        d1 == IF has_mf /\ mf.st = "one"
              THEN Put(device_type_data, "manufacturer", IdStr(mf.rec.id))
              ELSE device_type_data
    IN  IF has_mf /\ mf.st # "one" THEN Returned(w1, 0)
        ELSE IF ~ans.create_ok
        THEN Returned(SendCreate(w1, get_endpoint("device_types"), d1, FALSE), 0)
        ELSE LET w2 == SendCreate(w1, get_endpoint("device_types"), d1, TRUE)
                 w3 == IF Has(d1, "interfaces")
                       THEN create_interfaces(w2, d1["interfaces"], 1,
                                              IdStr(w1.next_id), ans)
                       ELSE w2
             IN  Returned(w3, w1.next_id)

\* the get methods taking (name, device); the others take (name)
TwoArgumentGets == {"get_interface", "get_ip_addresses"}

\* the query each get method of NetboxAPI makes
GetQuery(method, name, device) ==
    CASE method = "get_device_types" ->
            Query(get_endpoint("device_types"), [model |-> name])
      [] method = "get_device_role" -> Query("dcim.device_roles", [name |-> name])
      [] method = "get_site" -> first_by_name_query("sites", name)
      [] method = "get_device" -> Query("dcim.devices", [name |-> name])
      [] method = "get_interface" ->
            Query("dcim.interfaces", [name |-> name, device |-> device])
      [] method = "get_ip_addresses" ->
            Query(get_endpoint("ip_addresses"),
                  [address |-> name, device |-> device])
      [] method = "get_prefixes" ->
            Query(get_endpoint("prefixes"), [prefix |-> name])

\* getattr(self, method_name)(name): the get methods of NetboxAPI
CallGet(remote, method, name, device) ==
    CASE method = "get_device_types" ->
            RemoteGet(remote, GetQuery(method, name, device).coll,
                      GetQuery(method, name, device).filters)
      [] method = "get_device_role" -> get_device_role(remote, name)
      [] method = "get_site" -> _get_first_by_name(remote, "sites", name)
      [] method = "get_device" -> get_device(remote, name)
      [] method = "get_interface" -> get_interface(remote, name, device)
      [] method = "get_ip_addresses" ->
            RemoteGet(remote, GetQuery(method, name, device).coll,
                      GetQuery(method, name, device).filters)
      [] method = "get_prefixes" ->
            RemoteGet(remote, GetQuery(method, name, device).coll,
                      GetQuery(method, name, device).filters)

\* the query the lookup of get_or_create makes, NoQuery when the call of
\* the get method raises before it asks
LookupQuery(entity_type, name, data) ==
    IF MethodName("get_", entity_type) \notin ApiAttributes
    THEN first_by_name_query(entity_type, name)
    ELSE IF Has(data, "device") # (MethodName("get_", entity_type) \in TwoArgumentGets)
    THEN NoQuery
    ELSE GetQuery(MethodName("get_", entity_type), name, GetOrNone(data, "device"))

\* the lookup of get_or_create: "one" with the record found, "none" when
\* the entity does not exist, "raise" when an exception ends the call
LookupEntity(remote, entity_type, name, data) ==
    LET method_name == MethodName("get_", entity_type)
    IN  IF method_name \notin ApiAttributes
        THEN _get_first_by_name(remote, entity_type, name)   \* AttributeError
        ELSE IF Has(data, "device") # (method_name \in TwoArgumentGets)
        THEN [st |-> "raise"]                                \* TypeError
        ELSE CallGet(remote, method_name, name, GetOrNone(data, "device"))

\* getattr(self, create_method_name)(transformed_data)
CallCreate(w, method, data, ans) ==
    CASE method = "create_device" -> create_device(w, data, ans)
      [] method = "create_ip_addresses" -> create_ip_addresses(w, data, ans)
      [] method = "create_device_type" -> create_device_type(w, data, ans)
      [] method = "create_interface_templates" -> create_interface_templates(w, data, ans)
      [] method \in DOMAIN SimpleCreate -> simple_create(w, method, data, ans)
      [] OTHER -> Returned(w, 0)                             \* AttributeError

\* what the service may answer to the request of a lookup: the records,
\* a pynetbox.RequestError that says "Not Found", or another failure
LookupAnswers == {"ok", "not_found", "error"}

\* the lookup of get_or_create under the answer of the service. The get
\* method is called inside the inner try, where a "Not Found" request error
\* is passed over and any other is raised again; get_device_role turns every
\* failure into None; the generic lookup runs in the AttributeError handler,
\* where every failure leaves the inner try
LookupAnswered(remote, entity_type, name, data, ans) ==
    IF data = NoneData
    THEN [st |-> "raise", exc |-> "TypeError"]           \* 'device' in None
    ELSE IF LookupEntity(remote, entity_type, name, data).st = "raise"
    THEN [st |-> "raise", exc |-> "TypeError"]       \* or ValueError
    ELSE IF ans.lookup = "ok" \/ LookupQuery(entity_type, name, data) = NoQuery
    THEN LookupEntity(remote, entity_type, name, data)
    ELSE IF MethodName("get_", entity_type) = "get_device_role"
    THEN [st |-> "none"]
    ELSE IF ans.lookup = "not_found" /\ MethodName("get_", entity_type) \in ApiAttributes
    THEN [st |-> "none"]
    ELSE [st |-> "raise", exc |-> "pynetbox.RequestError"]

\* the body of the outer try of get_or_create: exc is the exception that
\* leaves it, None when it returns
get_or_create_try(w, entity_type, name, data, ans) ==
    LET existing == LookupAnswered(w.nb, entity_type, name, data, ans)
    IN  IF existing.st = "one"
        THEN Returned(w, existing.rec.id) @@ [found |-> "found", exc |-> None]
        ELSE IF existing.st = "raise"
        THEN Returned(w, 0) @@ [found |-> "error", exc |-> existing.exc]
        ELSE IF MethodName("create_", entity_type) \notin ApiAttributes
        THEN Returned(w, 0) @@ [found |-> "absent", exc |-> "AttributeError"]
        ELSE CallCreate(w, MethodName("create_", entity_type),
                        transform(entity_type, data), ans)
                 @@ [found |-> "absent", exc |-> None]

\* variant of the handlers of get_or_create: only pynetbox.RequestError is
\* handled
except_RequestErrorOnly(r) ==
    [w |-> r.w, ret |-> r.ret, found |-> r.found, exc |-> r.exc,
     raised |-> r.exc \notin {None, "pynetbox.RequestError"}]

\* the handlers of the outer try of get_or_create: a RequestError and
\* every other Exception are logged and None is returned
except_Exception(r) ==
    [w |-> r.w, ret |-> r.ret, found |-> r.found, exc |-> r.exc,
     raised |-> FALSE]

\* variant of get_or_create: an entity that is found is updated with the
\* declared data
get_or_create_Upsert(w, entity_type, name, data, ans) ==
    LET r == get_or_create_try(w, entity_type, name, data, ans)
    IN  IF r.found = "found"
        THEN except_Exception(
                 [r EXCEPT !.w = SendUpdate(w, CHOOSE x \in w.nb : x.id = r.ret,
                                            data, TRUE)])
        ELSE except_Exception(r)

\* NetboxAPI.get_or_create: transformed_data, None when the method returns
\* before it is computed
transformed_data(found, entity_type, data) ==
    IF found = "absent" THEN transform(entity_type, data) ELSE NoneData

\* NetboxAPI.get_or_create
get_or_create(w, entity_type, name, data, ans) ==
    except_Exception(get_or_create_try(w, entity_type, name, data, ans))

(* The calls the model makes.                                              *)

MaxApiCalls == 3

ApiCall(entity_type, name, data) ==
    [entity_type |-> entity_type, name |-> name, data |-> data]

DeviceSpecs ==
    {[name |-> "R1", primary_ip4 |-> "A"],
     [name |-> "R1", site |-> "s1", primary_ip4 |-> "A"],
     [name |-> "R1", site |-> "s1", role |-> "r1"],
     [name |-> "R2", primary_ip4 |-> "A"],
     [name |-> "R2", site |-> "s1"],
     [name |-> "R2", site |-> "s9", primary_ip4 |-> "A"]}

ApiInputs ==
    {ApiCall("devices", d.name, d) : d \in DeviceSpecs}
    \cup {ApiCall("ip_addresses", "A", d) :
        d \in {[address |-> "A"],
               [address |-> "A", device |-> "R1"],
               [address |-> "A", device |-> "R2"],
               [address |-> "A", device |-> "R1", interface |-> "eth0"]}}
    \cup {ApiCall("device_types", "m1", [model |-> "m1", manufacturer |-> "mf1"]),
          ApiCall("device_types", "m2",
                  [model |-> "m2",
                   interfaces |-> <<[name |-> "eth0"],
                                    [name_template |-> "e[0-1]"]>>]),
          ApiCall("sites", "s9", [name |-> "s9"]),
          ApiCall("asns", "65000", [asn |-> "65000"]),
          ApiCall("tenants", "t1", [name |-> "t1"]),
          ApiCall("interface_templates", "it1", [name |-> "it1"]),
          ApiCall("widgets", "w1", [name |-> "w1"])}

\* what the remote service answers to a create and to an update request
Answers == [create_ok : BOOLEAN, update_ok : BOOLEAN, lookup : {"ok"}]

\* the service holds a site and a device role
ApiInitialRemotes ==
    {{RemoteRecord("dcim.sites", 1, [name |-> "s1"]),
      RemoteRecord("dcim.device_roles", 2, [name |-> "r1"])}}

ApiInit ==
    /\ nb \in ApiInitialRemotes
    /\ next_id = Cardinality(nb) + 1
    /\ primary_ips = <<>>
    /\ api_log = <<>>

\* a NetboxAPI that was never used
ApiIdle ==
    /\ primary_ips = <<>>
    /\ api_log = <<>>

\* what the log keeps of one call of get_or_create
CallEntry(inp, r) ==
    [entity_type |-> inp.entity_type, name |-> inp.name,
     data |-> inp.data, found |-> r.found, ret |-> r.ret,
     exc |-> r.exc, raised |-> r.raised,
     reqs |-> r.w.reqs, refs |-> r.w.refs,
     transformed |-> transformed_data(r.found, inp.entity_type, inp.data),
     lookup |-> LookupQuery(inp.entity_type, inp.name, inp.data)]

\* one call of NetboxAPI.get_or_create
GetOrCreate ==
    /\ Len(api_log) < MaxApiCalls
    /\ \E inp \in ApiInputs : \E ans \in Answers :
          \E r \in {get_or_create(Work(nb, next_id, primary_ips),
                                  inp.entity_type, inp.name, inp.data, ans)} :
              /\ nb' = r.w.nb
              /\ next_id' = r.w.next_id
              /\ primary_ips' = r.w.primary_ips
              /\ api_log' = Append(api_log, CallEntry(inp, r))

(* get_or_create against a service whose lookups may fail.                 *)

MaxFaultyCalls == 2

\* calls of each kind of lookup: a get method inside the inner try, the
\* method that hides its failures, the generic lookup, a tag without any
\* handler, a record that is None
FaultInputs ==
    {ApiCall("devices", "R1", [name |-> "R1"]),
     ApiCall("devices", "R2", [name |-> "R2", site |-> "s1"]),
     ApiCall("sites", "s9", [name |-> "s9"]),
     ApiCall("device_roles", "r1", [name |-> "r1"]),
     ApiCall("ip_addresses", "A", [address |-> "A", device |-> "R1"]),
     ApiCall("ip_addresses", "A", [address |-> "A"]),
     ApiCall("tenants", "t1", [name |-> "t1"]),
     ApiCall("widgets", "w1", [name |-> "w1"]),
     ApiCall("sites", "s1", NoneData)}

FaultAnswers == [create_ok : BOOLEAN, update_ok : {TRUE}, lookup : LookupAnswers]

\* one call of NetboxAPI.get_or_create while the service may fail
GetOrCreateFaulty ==
    /\ Len(api_log) < MaxFaultyCalls
    /\ \E inp \in FaultInputs : \E ans \in FaultAnswers :
          \E r \in {get_or_create(Work(nb, next_id, primary_ips),
                                  inp.entity_type, inp.name, inp.data, ans)} :
              /\ nb' = r.w.nb
              /\ next_id' = r.w.next_id
              /\ primary_ips' = r.w.primary_ips
              /\ api_log' = Append(api_log,
                     CallEntry(inp, r) @@ [answer |-> ans.lookup])

(***************************************************************************)
(* config.py, connection.py, cli.py, __main__.py, manager.py: one run      *)
(***************************************************************************)

SettingNames == {"url", "token", "username", "password"}

\* the settings one source gives, each absent (None) or the value v; the
\* user name and the password come together
SettingsOf(v) ==
    {[url |-> u, token |-> t, username |-> c, password |-> c] :
        u \in {None, v}, t \in {None, v}, c \in {None, v}}

\* Python's "a or b" on optional, non-empty strings
Or(a, b) == IF a # None THEN a ELSE b

\* Config._load_config and Config.get: the file first, then the environment
\* on top of it
config_get(file, env, key) == IF env[key] # None THEN env[key] ELSE file[key]

\* cli.main: "url or config_obj.get_url()" and the like
cli_setting(flags, file, env, key) == Or(flags[key], config_get(file, env, key))

\* __main__.main: "config.get_url() or args.url" and the like
module_setting(flags, file, env, key) == Or(config_get(file, env, key), flags[key])

\* no NetboxConnection has been constructed
NoConnection == [url |-> None, token |-> None, username |-> None,
                 password |-> None, api |-> None, _token_created |-> FALSE]

\* NetboxConnection.__init__
NetboxConnection(url, token, username, password) ==
    [url |-> url, token |-> token, username |-> username,
     password |-> password, api |-> None, _token_created |-> FALSE]

\* what the library answers to connect(): whether its calls succeed.  The
\* creation of a token is a request, which fails when the service is out of
\* reach.
ConnectAnswers(reach) == IF reach THEN BOOLEAN ELSE {FALSE}

\* NetboxConnection.connect: the connection afterwards and whether it raised
connect(c, ok) ==
    IF c.token # None
    THEN IF c.url = None /\ ~ok
         THEN [conn |-> c, raised |-> TRUE]
         ELSE [conn |-> [c EXCEPT !.api = "api"], raised |-> FALSE]
    ELSE IF c.username # None /\ c.password # None
    THEN IF ok
         THEN [conn |-> [c EXCEPT !.api = "api", !._token_created = TRUE,
                                  !.token = "created"],
               raised |-> FALSE]
         ELSE [conn |-> [c EXCEPT !.api = "api", !._token_created = TRUE],
               raised |-> TRUE]
    ELSE [conn |-> c, raised |-> TRUE]                      \* ValueError

\* NetboxConnection.close
\* connect(): the token request it sends, create_token when the connection
\* has no token and has a user name and a password
connect_requests(c) ==
    IF c.token = None /\ c.username # None /\ c.password # None
    THEN <<"create_token">>
    ELSE <<>>

\* variant of close(): the token is deleted whenever the connection has one
close_requests_AnyToken(c) ==
    IF c.token # None /\ c.api # None THEN <<"token.delete">> ELSE <<>>

\* close(): the token request it sends.  self.api.token.delete() raises
\* before any request when self.api is None; the exception is passed over
close_requests(c) ==
    IF c._token_created /\ c.token # None /\ c.api # None
    THEN <<"token.delete">>
    ELSE <<>>

close(c) ==
    IF c._token_created /\ c.token # None
    THEN [c EXCEPT !.api = None]
    ELSE c

\* variant of __exit__: close() is called only when the body did not raise
__exit___OnSuccess(calls, exc_type) ==
    IF exc_type = None THEN calls + 1 ELSE calls

\* NetboxConnection.__exit__, run by the with statement when its body is
\* left, with or without exception: the number of calls of close() after it
__exit__(calls, exc_type) == calls + 1

\* records of the documents: a mapping, or a null entry of a sequence
RecordShapes == {"dict", "none"}

MaxDeclared == 2

\* what _create_item writes for a record
CreateItemMessages(reach) ==
    IF reach
    THEN {"Skipped: already exists", "Created", "Error creating"}
    ELSE {"Unexpected error creating"}

\* the value of exit_status while main runs
Running == -1

\* main ends with the status
Exit(code) ==
    /\ exit_status' = code
    /\ main_pc' = "exited"

Echo(message) == echoed' = echoed \cup {message}

MainInit ==
    /\ entry_point \in {"cli", "__main__"}
    /\ args \in SettingsOf("F")
    /\ environ \in SettingsOf("E")
    /\ file_config \in SettingsOf("X")
    /\ reachable \in BOOLEAN
    /\ declared \in IF entry_point = "cli"
                    THEN {<<>>} \cup SeqsUpTo(RecordShapes, MaxDeclared)
                    ELSE {<<>>}
    /\ connection = NoConnection
    /\ main_pc = "start"
    /\ acquired = 0
    /\ closed = 0
    /\ exit_status = Running
    /\ echoed = {}
    /\ token_requests = <<>>

\* no main runs, for the specifications of the other parts
MainIdle ==
    /\ entry_point = "cli"
    /\ args = [k \in SettingNames |-> None]
    /\ environ = [k \in SettingNames |-> None]
    /\ file_config = [k \in SettingNames |-> None]
    /\ reachable = TRUE
    /\ declared = <<>>
    /\ connection = NoConnection
    /\ main_pc = "start"
    /\ acquired = 0
    /\ closed = 0
    /\ exit_status = Running
    /\ echoed = {}
    /\ token_requests = <<>>

\* cli.main up to the validation of the settings: no URL
CliNoUrl ==
    /\ entry_point = "cli"
    /\ main_pc = "start"
    /\ cli_setting(args, file_config, environ, "url") = None
    /\ Echo("Error: Netbox URL is required.")
    /\ Exit(1)
    /\ UNCHANGED <<entry_point, args, environ, file_config, reachable,
                   declared, connection, acquired, closed, token_requests>>

\* cli.main up to the validation of the settings: neither a token nor a
\* user name with a password
CliNoAuthentication ==
    /\ entry_point = "cli"
    /\ main_pc = "start"
    /\ cli_setting(args, file_config, environ, "url") # None
    /\ cli_setting(args, file_config, environ, "token") = None
    /\ \/ cli_setting(args, file_config, environ, "username") = None
       \/ cli_setting(args, file_config, environ, "password") = None
    /\ Echo("Error: Either token or username/password must be provided.")
    /\ Exit(1)
    /\ UNCHANGED <<entry_point, args, environ, file_config, reachable,
                   declared, connection, acquired, closed, token_requests>>

\* cli.main with valid settings, up to the entry of the with statement:
\* __enter__ calls connect()
CliConnect ==
    /\ entry_point = "cli"
    /\ main_pc = "start"
    /\ cli_setting(args, file_config, environ, "url") # None
    /\ \/ cli_setting(args, file_config, environ, "token") # None
       \/ /\ cli_setting(args, file_config, environ, "username") # None
          /\ cli_setting(args, file_config, environ, "password") # None
    /\ \E ok \in ConnectAnswers(reachable) :
          \E r \in {connect(NetboxConnection(
                                cli_setting(args, file_config, environ, "url"),
                                cli_setting(args, file_config, environ, "token"),
                                cli_setting(args, file_config, environ, "username"),
                                cli_setting(args, file_config, environ, "password")),
                            ok)} :
              /\ connection' = r.conn
              /\ token_requests' = token_requests \o connect_requests(
                     NetboxConnection(
                         cli_setting(args, file_config, environ, "url"),
                         cli_setting(args, file_config, environ, "token"),
                         cli_setting(args, file_config, environ, "username"),
                         cli_setting(args, file_config, environ, "password")))
              /\ IF r.raised
                 THEN \* __enter__ raised: no __exit__, the handler returns 1
                      /\ Echo("Error")
                      /\ Exit(1)
                      /\ UNCHANGED acquired
                 ELSE /\ Echo("Successfully connected to Netbox!")
                      /\ acquired' = acquired + 1
                      /\ main_pc' = "body"
                      /\ UNCHANGED exit_status
    /\ UNCHANGED <<entry_point, args, environ, file_config, reachable,
                   declared, closed>>

\* initialize_all within the with statement: the next declared record.  A
\* null entry of a sequence raises out of initialize_all: __exit__ runs, the
\* handler of main returns 1.  Every error of _create_item is caught there.
CliRecord ==
    /\ entry_point = "cli"
    /\ main_pc = "body"
    /\ declared # <<>>
    /\ IF Head(declared) = "none"
       THEN /\ closed' = __exit__(closed, "TypeError")
            /\ connection' = close(connection)
            /\ token_requests' = token_requests \o close_requests(connection)
            /\ Echo("Error")
            /\ Exit(1)
            /\ UNCHANGED declared
       ELSE /\ \E message \in CreateItemMessages(reachable) : Echo(message)
            /\ declared' = Tail(declared)
            /\ UNCHANGED <<connection, main_pc, closed, exit_status,
                           token_requests>>
    /\ UNCHANGED <<entry_point, args, environ, file_config, reachable, acquired>>

\* initialize_all has returned: the message of success, the end of the with
\* statement, return 0
CliReturn ==
    /\ entry_point = "cli"
    /\ main_pc = "body"
    /\ declared = <<>>
    /\ Echo("Netbox initialized successfully!")
    /\ closed' = __exit__(closed, None)
    /\ connection' = close(connection)
    /\ token_requests' = token_requests \o close_requests(connection)
    /\ Exit(0)
    /\ UNCHANGED <<entry_point, args, environ, file_config, reachable,
                   declared, acquired>>

\* python -m nb_init: the imports of __main__.py, then main up to the
\* construction of the manager.  The import of manager.py fails with a
\* NameError where annotations are evaluated at definition time.
ModuleStart ==
    /\ entry_point = "__main__"
    /\ main_pc = "start"
    /\ \E imports \in BOOLEAN :
          IF imports
          THEN /\ connection' = NetboxConnection(
                                    module_setting(args, file_config, environ, "url"),
                                    module_setting(args, file_config, environ, "token"),
                                    module_setting(args, file_config, environ, "username"),
                                    module_setting(args, file_config, environ, "password"))
               /\ main_pc' = "manager"
               /\ UNCHANGED <<exit_status, echoed>>
          ELSE /\ Echo("NameError")
               /\ Exit(1)
               /\ UNCHANGED connection
    /\ UNCHANGED <<entry_point, args, environ, file_config, reachable,
                   declared, acquired, closed, token_requests>>

\* NetboxManager.create_device and the message main prints for its result:
\* connect(), then the create request; every exception is caught
ModuleCreateDevice ==
    /\ entry_point = "__main__"
    /\ main_pc = "manager"
    /\ \E ok \in ConnectAnswers(reachable) : \E created \in ConnectAnswers(reachable) :
          \E r \in {connect(connection, ok)} :
              /\ connection' = r.conn
              /\ token_requests' = token_requests \o connect_requests(connection)
              /\ acquired' = IF r.raised THEN acquired ELSE acquired + 1
              /\ IF ~r.raised /\ created
                 THEN Echo("Success! Device created")
                 ELSE Echo("Failed to create device")
    /\ main_pc' = "closing"
    /\ UNCHANGED <<entry_point, args, environ, file_config, reachable,
                   declared, closed, exit_status>>

\* the last statement of __main__.main: connection.close(); main returns
ModuleClose ==
    /\ entry_point = "__main__"
    /\ main_pc = "closing"
    /\ closed' = closed + 1
    /\ connection' = close(connection)
    /\ token_requests' = token_requests \o close_requests(connection)
    /\ Exit(0)
    /\ UNCHANGED <<entry_point, args, environ, file_config, reachable,
                   declared, acquired, echoed>>

(* A NetboxConnection used directly: any sequence of connect() and        *)
(* close().                                                                *)

MaxConnectionCalls == 4

\* the arguments a connection is built with
ConnectionArguments ==
    [url : {"U"}, token : {None, "T"}, username : {None, "u"},
     password : {None, "p"}]

ConnectionInit ==
    /\ entry_point = "cli"
    /\ args \in ConnectionArguments
    /\ environ = [k \in SettingNames |-> None]
    /\ file_config = [k \in SettingNames |-> None]
    /\ reachable \in BOOLEAN
    /\ declared = <<>>
    /\ connection = NetboxConnection(args.url, args.token, args.username,
                                     args.password)
    /\ main_pc = "start"
    /\ acquired = 0
    /\ closed = 0
    /\ exit_status = Running
    /\ echoed = {}
    /\ token_requests = <<>>

\* one call of connect()
Connect ==
    /\ acquired + closed < MaxConnectionCalls
    /\ Len(token_requests) < MaxConnectionCalls
    /\ \E ok \in ConnectAnswers(reachable) :
          \E r \in {connect(connection, ok)} :
              /\ connection' = r.conn
              /\ token_requests' = token_requests \o connect_requests(connection)
              /\ acquired' = IF r.raised THEN acquired ELSE acquired + 1
    /\ UNCHANGED <<entry_point, args, environ, file_config, reachable,
                   declared, main_pc, closed, exit_status, echoed>>

\* one call of close()
Close ==
    /\ acquired + closed < MaxConnectionCalls
    /\ connection' = close(connection)
    /\ token_requests' = token_requests \o close_requests(connection)
    /\ closed' = closed + 1
    /\ UNCHANGED <<entry_point, args, environ, file_config, reachable,
                   declared, main_pc, acquired, exit_status, echoed>>

ConnectionNext ==
    \/ Connect
    \/ Close

MainNext ==
    \/ CliNoUrl
    \/ CliNoAuthentication
    \/ CliConnect
    \/ CliRecord
    \/ CliReturn
    \/ ModuleStart
    \/ ModuleCreateDevice
    \/ ModuleClose

(***************************************************************************)
(* initializer.py: NetboxInitializer.initialize_vlans                      *)
(***************************************************************************)

\* the VLAN records of the input list
VlanSpecs ==
    {[vid |-> "10", name |-> "v10"],
     [vid |-> "20", name |-> "v20", site |-> "s1"],
     [vid |-> "30", name |-> "v30", site |-> "s9", tenant |-> "t1"]}

MaxVlans == 3

\* what initialize_vlans returned: nothing yet, None, or a list
NotReturned == [returned |-> FALSE]
ReturnedNone == [returned |-> TRUE, value |-> None]
ReturnedList(list) == [returned |-> TRUE, value |-> "list", list |-> list]

\* _create_vlan_with_references: vlan_payload with the optional fields
\* 'description' and 'tenant'
vlan_payload_optional(vlan_payload, vlan_data) ==
    [k \in DOMAIN vlan_payload
           \cup (DOMAIN vlan_data \cap {"description", "tenant"}) |->
        IF k \in DOMAIN vlan_payload THEN vlan_payload[k] ELSE vlan_data[k]]

\* _create_vlan_with_references: vlan_payload with 'vid', 'name' and the
\* identifier of the site when the site is found
vlan_payload_site(remote, vlan_data) ==
    IF Has(vlan_data, "site")
       /\ CallGet(remote, "get_site", vlan_data["site"], None).st = "one"
    THEN [vid |-> GetOrNone(vlan_data, "vid"),
          name |-> GetOrNone(vlan_data, "name"),
          site |-> IdStr(CallGet(remote, "get_site", vlan_data["site"], None).rec.id)]
    ELSE [vid |-> GetOrNone(vlan_data, "vid"),
          name |-> GetOrNone(vlan_data, "name")]

\* NetboxInitializer._create_vlan_with_references
_create_vlan_with_references(w, vlan_data, ans) ==
    simple_create(w, "create_vlan",
                  vlan_payload_optional(vlan_payload_site(w.nb, vlan_data), vlan_data),
                  ans)

VlansInit ==
    /\ vlans \in {<<>>} \cup SeqsUpTo(VlanSpecs, MaxVlans)
    /\ nb = {RemoteRecord("dcim.sites", 1, [name |-> "s1"])}
    /\ next_id = 2
    /\ vlan_idx = 0
    /\ created_vlans = <<>>
    /\ vlans_result = NotReturned

\* initialize_vlans is not called, for the specifications of the other parts
VlansIdle ==
    /\ vlans = <<>>
    /\ vlan_idx = 0
    /\ created_vlans = <<>>
    /\ vlans_result = NotReturned

\* one iteration of the for loop of initialize_vlans, with the return it
\* makes when the VLAN was created
InitializeVlansRecord ==
    /\ vlans_result = NotReturned
    /\ vlan_idx < Len(vlans)
    /\ \E ans \in {a \in Answers : a.update_ok} :
          \E r \in {_create_vlan_with_references(
                        Work(nb, next_id, <<>>), vlans[vlan_idx + 1], ans)} :
              /\ nb' = r.w.nb
              /\ next_id' = r.w.next_id
              /\ IF r.ret # 0
                 THEN /\ created_vlans' = Append(created_vlans, r.ret)
                      /\ vlans_result' = ReturnedList(Append(created_vlans, r.ret))
                 ELSE UNCHANGED <<created_vlans, vlans_result>>
    /\ vlan_idx' = vlan_idx + 1
    /\ UNCHANGED vlans

\* the for loop of initialize_vlans is exhausted: the method ends without a
\* return statement
InitializeVlansEnd ==
    /\ vlans_result = NotReturned
    /\ vlan_idx = Len(vlans)
    /\ vlans_result' = ReturnedNone
    /\ UNCHANGED <<vlans, vlan_idx, created_vlans, nb, next_id>>

VlansNext ==
    \/ InitializeVlansRecord
    \/ InitializeVlansEnd

(***************************************************************************)
(* The specifications.                                                     *)
(***************************************************************************)

InitExpand == ExpandInit /\ RemoteIdle /\ RunIdle /\ ApiIdle /\ MainIdle /\ VlansIdle
NextExpand == ExpandNameTemplate /\ UNCHANGED <<recVars, apiVars, mainVars, vlanVars>>
SpecExpand == InitExpand /\ [][NextExpand]_vars

InitReconcile == RecInit /\ ExpandIdle /\ ApiIdle /\ MainIdle /\ VlansIdle
NextReconcile == RecNext /\ UNCHANGED <<expVars, apiVars, mainVars, vlanVars>>
SpecReconcile == InitReconcile /\ [][NextReconcile]_vars

InitAPI == ApiInit /\ ExpandIdle /\ RunIdle /\ MainIdle /\ VlansIdle
NextAPI == GetOrCreate /\ UNCHANGED <<expVars, runVars, mainVars, vlanVars>>
SpecAPI == InitAPI /\ [][NextAPI]_vars

NextFaults == GetOrCreateFaulty /\ UNCHANGED <<expVars, runVars, mainVars, vlanVars>>
SpecFaults == InitAPI /\ [][NextFaults]_vars

InitMain == MainInit /\ ExpandIdle /\ RemoteIdle /\ RunIdle /\ ApiIdle /\ VlansIdle
NextMain == MainNext /\ UNCHANGED <<expVars, recVars, apiVars, vlanVars>>
SpecMain == InitMain /\ [][NextMain]_vars

InitConnection == ConnectionInit /\ ExpandIdle /\ RemoteIdle /\ RunIdle /\ ApiIdle /\ VlansIdle
NextConnection == ConnectionNext /\ UNCHANGED <<expVars, recVars, apiVars, vlanVars>>
SpecConnection == InitConnection /\ [][NextConnection]_vars

InitVlans == VlansInit /\ ExpandIdle /\ RunIdle /\ ApiIdle /\ MainIdle
NextVlans == VlansNext /\ UNCHANGED <<expVars, runVars, apiVars, mainVars>>
SpecVlans == InitVlans /\ [][NextVlans]_vars

(***************************************************************************)
(* Properties of the initializer (claims C1, C2).                          *)
(***************************************************************************)

\* every document that exists is a mapping or a sequence of mappings, and
\* every mapping of a sequence carries its name
ValidDocuments ==
    \A t \in DocTags :
        /\ yaml_dir[t].kind \in {"missing", "dict", "list"}
        /\ \A k \in 1..Len(yaml_dir[t].items) :
              /\ yaml_dir[t].items[k].shape = "dict"
              /\ yaml_dir[t].kind = "list" => yaml_dir[t].items[k].name # NoName

TwoRunsDone ==
    /\ pc = "idle"
    /\ history = <<"initialize_all", "initialize_all">>

\* C1: for valid documents and a remote service that answers every request
\* (its lookups reflecting every earlier create), the second of two runs of
\* initialize_all in a row submits no create call and leaves the set of
\* remote identifiers as the first run left it.
C1_Idempotence ==
    (TwoRunsDone /\ ValidDocuments /\ failed = <<0, 0>>) =>
        /\ creates[2] = 0
        /\ ids_after[2] = ids_after[1]

\* the records finished before a step: everything but "pending"
Finished(tag) ==
    \A k \in 1..Len(DocOf(tag).items) : status[<<tag, k>>] # "pending"

\* C2: during initialize_all, a step that submits a create call for a record
\* of type T finds every record of every type that precedes T in
\* ENTITY_ORDER finished (created, already present, or skipped with an error).
C2_Ordering ==
    [][\A p \in submitted' \ submitted :
          history[Len(history)] = "initialize_all" =>
              \A t \in DocTags :
                  (0 < Rank(t) /\ Rank(t) < Rank(p[1])) => Finished(t)]_vars

\* a device was submitted for creation after both sites were processed
C2_Witness ==
    /\ history # <<>>
    /\ history[Len(history)] = "initialize_all"
    /\ <<"devices", 1>> \in submitted
    /\ Len(yaml_dir["sites"].items) = 2
    /\ status[<<"sites", 1>>] = "created"
    /\ status[<<"sites", 2>>] = "created"

\* a tag neither registry knows
Unregistered(tag) ==
    tag \notin DOMAIN endpoint_map /\ tag \notin DOMAIN nb_endpoint_map

\* C10: for an entity tag without entry in the endpoint registry, "widgets"
\* among them, both endpoint lookups return None instead of failing; and a
\* call of initialize_entity on such a tag never raises, marks no record
\* of the tag as processed, submits no create call and leaves the remote
\* identifiers as they were when the call began.
C10_UnsupportedType ==
    /\ Unregistered("widgets")
    /\ \A t \in DocTags :
          Unregistered(t) =>
              /\ get_endpoint(t) = None
              /\ _get_endpoint(t) = None
              /\ (history # <<>> /\ history[Len(history)] = t) =>
                    /\ pc # "crashed"
                    /\ \A k \in 1..MaxRecords : status[<<t, k>>] \in {"pending", "none"}
                    /\ submitted = {}
                    /\ creates[Len(creates)] = 0
                    /\ RemoteIds = ids_after[Len(ids_after)]

\* initialize_entity("widgets") has returned for a document holding a record
C10_Witness ==
    /\ pc = "idle"
    /\ history # <<>>
    /\ history[Len(history)] = "widgets"
    /\ yaml_dir["widgets"] = Doc("dict", <<Item("n1", "dict", NoName)>>)
    /\ status[<<"widgets", 1>>] = "pending"
    /\ creates[Len(creates)] = 0

(***************************************************************************)
(* Properties of the expander (claims C4 - C7).                            *)
(***************************************************************************)

\* positions i < j such that s[i..j] reads "[" digits "-" digits "]"
WellFormedAt(s, i, j) ==
    /\ Ch(s, i) = "["
    /\ Ch(s, j) = "]"
    /\ \E d \in (i + 2)..(j - 2) :
          /\ Ch(s, d) = "-"
          /\ \A k \in (i + 1)..(d - 1) : IsDigit(Ch(s, k))
          /\ \A k \in (d + 1)..(j - 1) : IsDigit(Ch(s, k))

BracketedRanges(s) ==
    {p \in (1..Len(s)) \X (1..Len(s)) : p[1] < p[2] /\ WellFormedAt(s, p[1], p[2])}

ContainsRange(s) == BracketedRanges(s) # {}

\* the position of the "-" of the well-formed range s[i..j]
DashOf(s, i, j) == CHOOSE d \in (i + 2)..(j - 2) : Ch(s, d) = "-"

\* some range [a-b] of s has a > b
HasDescendingRange(s) ==
    \E p \in BracketedRanges(s) :
        LET d == DashOf(s, p[1], p[2])
        IN  ParseInt(Slice(s, p[1] + 1, d - 1)) > ParseInt(Slice(s, d + 1, p[2] - 1))

\* "[" ... "]" with no bracket in between
BracketPairs(s) ==
    {p \in (1..Len(s)) \X (1..Len(s)) :
        /\ p[1] < p[2]
        /\ Ch(s, p[1]) = "["
        /\ Ch(s, p[2]) = "]"
        /\ \A k \in (p[1] + 1)..(p[2] - 1) : Ch(s, k) \notin {"[", "]"}}

\* bracket pairs whose bounds are not both decimal integers
MalformedPairs(s) == BracketPairs(s) \ BracketedRanges(s)

HasMalformedBracket(s) == MalformedPairs(s) # {}

\* sub occurs in s
Contains(s, sub) ==
    \E i \in 1..(Len(s) - Len(sub) + 1) : Slice(s, i, i + Len(sub) - 1) = sub

\* the name of one tuple when the k-th bracket takes the k-th component
PositionalName(t, combination) ==
    LET static_parts == SplitStatic(t)
        n == Len(combination)
    IN  Join([k \in 1..n |-> static_parts[k] \o IntToStr(combination[k])])
        \o static_parts[n + 1]

\* the expansion the product order prescribes
PositionalExpansion(t) ==
    LET ranges == FindAllRanges(t)
        combos == Product([k \in 1..Len(ranges) |->
                              RangeValues(ranges[k][1], ranges[k][2])])
    IN  [c \in 1..Len(combos) |-> PositionalName(t, combos[c])]

\* C4: a template with k >= 1 ranges expands to one name per tuple of the
\* Cartesian product of its ranges, in lexicographic product order (leftmost
\* range slowest), the i-th bracket replaced by the i-th component and the
\* literal text kept; "Ethernet[1-2]/[1-2]" gives Ethernet1/1, Ethernet1/2,
\* Ethernet2/1, Ethernet2/2 and "Ethernet[27-32]/1" gives 6 names.
C4_TemplateExpansion ==
    (expand_pc = "returned" /\ ContainsRange(name_template)) =>
        /\ result = PositionalExpansion(name_template)
        /\ name_template = "Ethernet[1-2]/[1-2]" =>
              result = <<"Ethernet1/1", "Ethernet1/2", "Ethernet2/1", "Ethernet2/2">>
        /\ name_template = "Ethernet[27-32]/1" => Len(result) = 6

\* C5: a template without any bracketed integer range is returned unchanged
\* as a single-element sequence.
C5_NoRangeIdentity ==
    (expand_pc = "returned" /\ ~ContainsRange(name_template)) =>
        result = <<name_template>>

C5_Witness ==
    /\ expand_pc = "returned"
    /\ name_template = "Ethernet/1"
    /\ ~ContainsRange(name_template)
    /\ result = <<"Ethernet/1">>

\* C6: a template in which some range [a-b] has a > b expands to the empty
\* sequence, and the call returns (it does not raise).
C6_DescendingRangeEmpty ==
    (expand_pc # "input" /\ HasDescendingRange(name_template)) =>
        (expand_pc = "returned" /\ result = <<>>)

C6_Witness ==
    /\ expand_pc = "returned"
    /\ name_template = "Ethernet[1-2]/[2-1]"
    /\ HasDescendingRange(name_template)
    /\ result = <<>>

C3_CatalogDependency ==
    \A k \in 1..Len(api_log) :
        \A ref \in api_log[k].refs :
            0 < Rank(ref) /\ Rank(ref) < Rank(api_log[k].entity_type)

\* the remote collection that holds what a device attribute refers to
ReferenceCollection ==
    [device_type |-> "dcim.device_types", role |-> "dcim.device_roles",
     site |-> "dcim.sites", location |-> "dcim.locations",
     rack |-> "dcim.racks", config_template |-> "extras.config_templates"]

\* the remote service holds a record of the collection with the name
ExistsRemotely(coll, name) ==
    \E r \in nb : r.coll = coll /\ Has(r.attrs, "name") /\ r.attrs["name"] = name

\* every object a device record refers to exists remotely
ReferencesExist(data) ==
    \A f \in DOMAIN data \cap DOMAIN ReferenceCollection :
        ExistsRemotely(ReferenceCollection[f], data[f])

\* a call for a device that is absent and names a site the service lacks
\* in the state its call leaves
NamesMissingSite(call) ==
    /\ call.entity_type = "devices"
    /\ call.found = "absent"
    /\ Has(call.data, "site")
    /\ ~ExistsRemotely("dcim.sites", call.data["site"])

\* the call submitted a create request
SubmitsCreate(call) ==
    \E k \in 1..Len(call.reqs) : call.reqs[k].op = "create"

\* C8: a device naming a site that does not exist remotely is not created:
\* its call returns None and submits no create; and every device processed
\* after it is looked up and, when absent with every object it refers to
\* existing remotely, submitted for creation.
C8_ReferenceFailureIsolation ==
    \A i \in 1..Len(api_log) :
        NamesMissingSite(api_log[i]) =>
            /\ api_log[i].ret = 0
            /\ ~SubmitsCreate(api_log[i])
            /\ \A j \in (i + 1)..Len(api_log) :
                  (/\ api_log[j].entity_type = "devices"
                   /\ api_log[j].found = "absent"
                   /\ ReferencesExist(api_log[j].data)) => SubmitsCreate(api_log[j])

\* the call created an address record for the address
CreatesAddress(call, address) ==
    /\ call.entity_type = "ip_addresses"
    /\ Has(call.data, "address")
    /\ call.data["address"] = address
    /\ \E k \in 1..Len(call.reqs) :
          /\ call.reqs[k].op = "create"
          /\ call.reqs[k].coll = "ipam.ip_addresses"
          /\ call.reqs[k].ok

\* the identifier the call's accepted create request was given: the call
\* returns the created record
CreatedId(call) == call.ret

\* C9: when an absent device is declared with a primary address A before any
\* address record A exists and is created, and the last call so far created
\* the address A owned by that device and returned it, the device's remote
\* record carries the identifier of that address as primary_ip4.
C9_PrimaryAddressTwoPhase ==
    \A i \in 1..Len(api_log) :
        LET d == api_log[i]
            a == api_log[Len(api_log)]
        IN  (/\ i < Len(api_log)
             /\ d.entity_type = "devices"
             /\ d.found = "absent"
             /\ d.ret # 0
             /\ Has(d.data, "primary_ip4")
             /\ \A k \in 1..(i - 1) : ~CreatesAddress(api_log[k], d.data["primary_ip4"])
             /\ CreatesAddress(a, d.data["primary_ip4"])
             /\ Has(a.data, "device")
             /\ a.data["device"] = d.name
             /\ a.ret # 0)
            => \E r \in nb :
                  /\ r.coll = "dcim.devices"
                  /\ r.id = d.ret
                  /\ Has(r.attrs, "primary_ip4")
                  /\ r.attrs["primary_ip4"] = IdStr(CreatedId(a))

(***************************************************************************)
(* Properties of NetboxAPI and of the initializer (claims C11 - C15).      *)
(***************************************************************************)

\* the call of get_or_create made last
LastCall(log) == log[Len(log)]

\* C11: a call of get_or_create whose lookup finds the entity sends no
\* create and no update request and leaves every remote record as it was,
\* whatever the declared data; and a record _create_item finds present is
\* left without create call and without change of the remote records.
C11_CreateOnly ==
    [][/\ (api_log' # api_log /\ LastCall(api_log').found = "found") =>
             /\ LastCall(api_log').reqs = <<>>
             /\ nb' = nb
             /\ \E r \in nb : r.id = LastCall(api_log').ret
       /\ \A p \in DOMAIN status :
             (status[p] # "present" /\ status'[p] = "present") =>
                 /\ nb' = nb
                 /\ submitted' = submitted
                 /\ creates' = creates]_vars

\* a device that exists was declared with other attributes than it has
C11_Witness ==
    /\ api_log # <<>>
    /\ LastCall(api_log).entity_type = "devices"
    /\ LastCall(api_log).found = "found"
    /\ Has(LastCall(api_log).data, "primary_ip4")
    /\ \E r \in nb : /\ r.id = LastCall(api_log).ret
                     /\ r.coll = "dcim.devices"
                     /\ ~Has(r.attrs, "primary_ip4")

\* the attributes of a record that name another object
ReferenceFields ==
    DOMAIN ReferenceCollection \cup
        {"primary_ip4", "primary_ip6", "device", "interface", "vrf", "manufacturer"}

\* the call submitted a create request to the collection
SubmitsCreateTo(call, coll) ==
    \E k \in 1..Len(call.reqs) :
        call.reqs[k].op = "create" /\ call.reqs[k].coll = coll

\* C12: every call of get_or_create for an entity type of the endpoint
\* registry whose lookup finds nothing, on a record that names no other
\* object, submits a create request to the type's collection, and returns
\* the created record when the service accepts the request and None when it
\* rejects it.
C12_RegisteredTypesCreate ==
    \A i \in 1..Len(api_log) :
        (/\ get_endpoint(api_log[i].entity_type) # None
         /\ api_log[i].found = "absent"
         /\ DOMAIN api_log[i].data \cap ReferenceFields = {}) =>
            /\ SubmitsCreateTo(api_log[i], get_endpoint(api_log[i].entity_type))
            /\ \A k \in 1..Len(api_log[i].reqs) :
                  api_log[i].reqs[k].op = "create" =>
                      (api_log[i].reqs[k].ok <=> api_log[i].ret # 0)

\* C13: for an entity tag without a transform method of its own, the data
\* get_or_create gets from transform is the record it was given, unchanged,
\* and so is what the method returned by get_transformer makes of it.
C13_IdentityTransform ==
    \A i \in 1..Len(api_log) :
        (/\ api_log[i].found = "absent"
         /\ ("transform_" \o api_log[i].entity_type) \notin TransformerMethods) =>
            /\ api_log[i].transformed = api_log[i].data
            /\ CallTransformer(get_transformer(api_log[i].entity_type),
                               api_log[i].data) = api_log[i].data

\* the entities of the order whose file is missing or whose document is
\* empty or neither a mapping nor a sequence
Unprocessable ==
    {ENTITY_ORDER[k] : k \in {j \in 1..Len(ENTITY_ORDER) :
                                 ~Processable(DocOf(ENTITY_ORDER[j]))}}

\* the entities between positions a and b of a sequence of entities
EntitiesOf(entities, a, b) == {entities[k] : k \in a..b}

\* C14: a step that warns about entities warns only about entities whose
\* document is missing, empty or of the wrong shape, creates nothing and
\* submits nothing, keeps the call running, and leaves every entity after
\* them to be processed, in order; and when initialize_all returns, every
\* such entity has been warned about, none of them has a record submitted,
\* and no record of a later processable document is left unprocessed.
C14_MissingDocumentSkipped ==
    [][/\ (pc = "running" /\ warned' # warned) =>
             /\ warned \subseteq warned'
             /\ (warned' \ warned) \subseteq Unprocessable
             /\ nb' = nb
             /\ submitted' = submitted
             /\ creates' = creates
             /\ status' = status
             /\ pc' = "running"
             /\ \E n \in 1..Len(todo) :
                   /\ EntitiesOf(todo, 1, n) = warned' \ warned
                   /\ todo' = SubSeq(todo, n + 1, Len(todo))
       /\ (pc = "running" /\ pc' = "idle"
             /\ history[Len(history)] = "initialize_all") =>
             /\ Unprocessable \subseteq warned
             /\ \A p \in submitted : p[1] \notin Unprocessable
             /\ \A p \in DOMAIN status :
                   _get_endpoint(p[1]) # None => status[p] # "pending"]_vars

\* initialize_all has returned after it warned about the empty or ill-shaped
\* document of the sites and then created a device
C14_Witness ==
    /\ pc = "idle"
    /\ history # <<>>
    /\ history[Len(history)] = "initialize_all"
    /\ yaml_dir["sites"].kind \notin {"missing", "dict", "list"}
    /\ "sites" \in warned
    /\ \E p \in DOMAIN status : p[1] = "devices" /\ status[p] = "created"

\* C15: no error of a record leaves the processing of that record: the call
\* is never ended by an exception, and when initialize_all has returned no
\* record of a document with an endpoint is left unprocessed.
C15_PerRecordContainment ==
    /\ pc # "crashed"
    /\ (pc = "idle" /\ history # <<>>
          /\ history[Len(history)] = "initialize_all") =>
          \A p \in DOMAIN status :
              _get_endpoint(p[1]) # None => status[p] # "pending"

(***************************************************************************)
(* Properties of a run of main (claims C16, C17, C19).                     *)
(***************************************************************************)

\* C16: a run of cli.main whose requests did not reach the remote service
\* ends with the status 1 and without the message of success.
C16_UnreachableFailsFatally ==
    (/\ main_pc = "exited"
     /\ entry_point = "cli"
     /\ ~reachable
     /\ "Unexpected error creating" \in echoed) =>
        /\ exit_status = 1
        /\ "Netbox initialized successfully!" \notin echoed

\* C17: connect() returns at most once in a run and close() is called at
\* most once; while main runs with the connection acquired close() has not
\* been called; and when main has ended after the connection was acquired,
\* whether by return or by an exception of the reconciliation, close() has
\* been called exactly once.
C17_ConnectionReleasedOnce ==
    /\ acquired <= 1
    /\ closed <= 1
    /\ main_pc \in {"body", "manager", "closing"} => closed = 0
    /\ main_pc = "body" => acquired = 1
    /\ (main_pc = "exited" /\ acquired = 1) => closed = 1

\* cli.main has ended by an exception of initialize_all after the connection
\* was acquired and a record was processed, and close() was called
C17_Witness ==
    /\ main_pc = "exited"
    /\ entry_point = "cli"
    /\ acquired = 1
    /\ closed = 1
    /\ exit_status = 1
    /\ declared # <<>>
    /\ Head(declared) = "none"
    /\ Len(declared) < MaxDeclared

\* C19: the connection is made with the value of a flag or of an environment
\* variable whenever one of them gives the setting, and with the value of
\* the configuration file only when neither gives it.
C19_FlagsAndEnvironmentOverrideFile ==
    connection # NoConnection =>
        \A k \in SettingNames :
            /\ (args[k] # None \/ environ[k] # None) =>
                  connection[k] \in ({args[k], environ[k]} \ {None})
            /\ (file_config[k] # None /\ connection[k] = file_config[k]) =>
                  (args[k] = None /\ environ[k] = None)

(***************************************************************************)
(* Properties of NetboxAPI (claims C18, C20).                              *)
(***************************************************************************)

\* the number of interface templates a sequence of descriptors stands for:
\* one for a descriptor without name template, one for each name a name
\* template expands to
RECURSIVE TemplatesDeclared(_, _)
TemplatesDeclared(interfaces, k) ==
    IF k > Len(interfaces) THEN 0
    ELSE (IF Has(interfaces[k], "name_template")
          THEN Len(expand_name_template(interfaces[k]["name_template"]))
          ELSE 1) + TemplatesDeclared(interfaces, k + 1)

\* the positions of the create requests a call sent to a collection
CreatesTo(call, coll) ==
    {k \in 1..Len(call.reqs) :
        call.reqs[k].op = "create" /\ call.reqs[k].coll = coll}

\* C18: a call that creates a device type declared with interface
\* descriptors sends, after the create request of the device type, one
\* create request of an interface template for each descriptor without
\* name template and for each name a name template expands to, and each of
\* them carries the identifier of the new device type.
C18_InterfaceTemplates ==
    \A i \in 1..Len(api_log) :
        (/\ api_log[i].entity_type = "device_types"
         /\ api_log[i].found = "absent"
         /\ api_log[i].ret # 0
         /\ Has(api_log[i].data, "interfaces")) =>
            /\ Cardinality(CreatesTo(api_log[i], get_endpoint("interface_templates")))
                   = TemplatesDeclared(api_log[i].data["interfaces"], 1)
            /\ \A k \in CreatesTo(api_log[i], get_endpoint("interface_templates")) :
                  /\ Has(api_log[i].reqs[k].payload, "device_type")
                  /\ api_log[i].reqs[k].payload["device_type"] = IdStr(api_log[i].ret)
                  /\ \E j \in CreatesTo(api_log[i], get_endpoint("device_types")) :
                        j < k

\* the reference fields of a device record
ReferencesOf(data) == DOMAIN data \cap DOMAIN ReferenceCollection

\* the remote identifier, as sent in a payload, of the object a reference
\* field of the record names
RemoteIdOf(data, field) ==
    {IdStr(r.id) : r \in {x \in nb : /\ x.coll = ReferenceCollection[field]
                                    /\ Has(x.attrs, "name")
                                    /\ x.attrs["name"] = data[field]}}

\* C20: a call for an absent device whose reference fields all name objects
\* that exist remotely submits a create request of the device in which each
\* reference field holds the remote identifier of the object it names.
C20_ReferenceResolution ==
    \A i \in 1..Len(api_log) :
        (/\ api_log[i].entity_type = "devices"
         /\ api_log[i].found = "absent"
         /\ ReferencesOf(api_log[i].data) # {}
         /\ ReferencesExist(api_log[i].data)) =>
            \E k \in CreatesTo(api_log[i], "dcim.devices") :
                \A f \in ReferencesOf(api_log[i].data) :
                    /\ Has(api_log[i].reqs[k].payload, f)
                    /\ api_log[i].reqs[k].payload[f] \in RemoteIdOf(api_log[i].data, f)

(***************************************************************************)
(* Properties of the lookups and of the deferred queue (claims C21 - C30). *)
(***************************************************************************)

\* the attribute that is the unique key of the entity type: asn, address,
\* model, and name for every other type
UniqueKey(entity_type) ==
    IF entity_type \in DOMAIN ENTITY_UNIQUE_NAME
    THEN ENTITY_UNIQUE_NAME[entity_type]
    ELSE "name"

\* C21: every lookup of get_or_create that asks a collection filters on the
\* unique-key attribute of the entity type, with the value the record
\* declares for that attribute.
C21_LookupByUniqueKey ==
    \A i \in 1..Len(api_log) :
        (/\ api_log[i].lookup # NoQuery
         /\ Has(api_log[i].data, UniqueKey(api_log[i].entity_type))) =>
            /\ Has(api_log[i].lookup.filters, UniqueKey(api_log[i].entity_type))
            /\ api_log[i].lookup.filters[UniqueKey(api_log[i].entity_type)]
                   = api_log[i].data[UniqueKey(api_log[i].entity_type)]

\* C22: when initialize_vlans has returned, its loop has gone through every
\* record of its input list.
C22_EveryRecordProcessed ==
    vlans_result # NotReturned => vlan_idx = Len(vlans)

\* the pairs (address, device) of the deferred queue
QueuedPairs(queue) == {queue[k] : k \in 1..Len(queue)}

\* the update requests a call sent for the device of the name with the
\* primary address set to the identifier
Resubmits(call, device, id) ==
    {k \in 1..Len(call.reqs) :
        /\ call.reqs[k].op = "update"
        /\ call.reqs[k].coll = "dcim.devices"
        /\ Has(call.reqs[k].payload, "name")
        /\ call.reqs[k].payload["name"] = device
        /\ Has(call.reqs[k].payload, "primary_ip4")
        /\ call.reqs[k].payload["primary_ip4"] = id}

\* the identifier of the address record a call created, 0 when it created
\* none
CreatedAddress(before, after) ==
    IF \E r \in after \ before : r.coll = "ipam.ip_addresses"
    THEN (CHOOSE r \in after \ before : r.coll = "ipam.ip_addresses").id
    ELSE 0

\* C23: whenever a call creates the address A for the device D while the
\* deferred queue holds the pair (A, D), the call sends an update of the
\* device D with primary_ip4 set to the identifier of the new address.
C23_DeferredFixup ==
    [][(/\ api_log' # api_log
        /\ LastCall(api_log').entity_type = "ip_addresses"
        /\ CreatedAddress(nb, nb') # 0
        /\ Has(LastCall(api_log').data, "address")
        /\ Has(LastCall(api_log').data, "device")
        /\ [ip4 |-> LastCall(api_log').data["address"],
            device |-> LastCall(api_log').data["device"]] \in QueuedPairs(primary_ips))
       => Resubmits(LastCall(api_log'), LastCall(api_log').data["device"],
                    IdStr(CreatedAddress(nb, nb'))) # {}]_vars

\* C24: after a call has created an address, matched a pair of the deferred
\* queue and sent the update of the device, which the service accepted, the
\* queue no longer holds that pair.
C24_DeferralConsumed ==
    [][(/\ api_log' # api_log
        /\ LastCall(api_log').entity_type = "ip_addresses"
        /\ CreatedAddress(nb, nb') # 0
        /\ Has(LastCall(api_log').data, "address")
        /\ Has(LastCall(api_log').data, "device")
        /\ \E k \in Resubmits(LastCall(api_log'), LastCall(api_log').data["device"],
                             IdStr(CreatedAddress(nb, nb'))) :
              LastCall(api_log').reqs[k].ok)
       => [ip4 |-> LastCall(api_log').data["address"],
           device |-> LastCall(api_log').data["device"]]
              \notin QueuedPairs(primary_ips')]_vars

\* C25: get_or_create never raises: whatever the entity type, the record and
\* the failure of the service, the call hands back a record of the service
\* or None
C25_NeverRaises ==
    \A i \in 1..Len(api_log) :
        /\ ~api_log[i].raised
        /\ api_log[i].ret = 0 \/ \E rec \in nb : rec.id = api_log[i].ret

\* a call whose lookup the service failed, a call on a tag without handlers
\* and a call on a record that is None have all returned None
C25_Witness ==
    /\ \E i \in 1..Len(api_log) :
         /\ api_log[i].exc = "pynetbox.RequestError"
         /\ api_log[i].answer = "error"
         /\ api_log[i].ret = 0
    /\ \E i \in 1..Len(api_log) :
         /\ api_log[i].exc \in {"AttributeError", "TypeError"}
         /\ api_log[i].ret = 0

\* C26: for every record _process_entity hands to _create_item, in the
\* mapping and in the sequence form, the name the lookup asks for is the
\* name attribute the create request submits
C26_LookupNameIsCreateName ==
    \A p \in submitted :
        LookupName(DocOf(p[1]), DocOf(p[1]).items[p[2]])
            = CreateName(DocOf(p[1]), DocOf(p[1]).items[p[2]])

\* the collections a call has sent create requests to
CreatedIn(call) ==
    {call.reqs[k].coll : k \in {j \in 1..Len(call.reqs) : call.reqs[j].op = "create"}}

\* C27: for every entity type get_or_create handles, the collection the
\* lookup asks is the collection the create request is submitted to
C27_LookupAndCreateSameCollection ==
    \A i \in 1..Len(api_log) :
        (/\ api_log[i].found = "absent"
         /\ api_log[i].lookup # NoQuery
         /\ CreatedIn(api_log[i]) # {})
            => api_log[i].lookup.coll \in CreatedIn(api_log[i])

\* the properties of a device record, other than its primary address, that
\* name another entity
OtherReferences(data) ==
    {prop \in {"device_type", "role", "site", "location", "rack",
               "config_template"} : Has(data, prop)}

\* the service holds a device of that name
DeviceExists(remote, name) ==
    \E r \in remote : r.coll = "dcim.devices" /\ r.attrs["name"] = name

\* C28: get_or_create for a device the service already holds leaves the
\* queue of deferred primary addresses unchanged; the queue grows only in a
\* call that creates a device, by the pair of that device, once every other
\* reference of the device has been resolved
C28_DeferralOnlyOnCreatePath ==
    [][api_log' # api_log =>
          /\ (/\ LastCall(api_log').entity_type = "devices"
              /\ DeviceExists(nb, LastCall(api_log').name))
                 => primary_ips' = primary_ips
          /\ primary_ips' # primary_ips =>
                 /\ LastCall(api_log').entity_type = "devices"
                 /\ LastCall(api_log').found = "absent"
                 /\ Has(LastCall(api_log').data, "primary_ip4")
                 /\ \A prop \in OtherReferences(LastCall(api_log').data) :
                        _get_first_by_name(nb, PropertyTag(prop),
                            LastCall(api_log').data[prop]).st = "one"
                 /\ primary_ips' = Append(primary_ips,
                        [ip4 |-> LastCall(api_log').data["primary_ip4"],
                         device |-> LastCall(api_log').name])]_vars

\* a device declared with a site and a primary address was created and its
\* deferral queued; the same declaration was submitted again, the device was
\* found and the queue still holds the one deferral
C28_Witness ==
    /\ Len(api_log) = 2
    /\ api_log[1].entity_type = "devices"
    /\ api_log[1].found = "absent"
    /\ api_log[1].ret # 0
    /\ OtherReferences(api_log[1].data) # {}
    /\ api_log[2] = [api_log[1] EXCEPT !.found = "found", !.reqs = <<>>,
                                       !.refs = {}, !.transformed = NoneData]
    /\ primary_ips = <<[ip4 |-> api_log[1].data["primary_ip4"],
                        device |-> api_log[1].name]>>

\* the update requests of a call that set a primary address
SetsPrimary(call) ==
    {k \in 1..Len(call.reqs) :
        /\ call.reqs[k].op = "update"
        /\ Has(call.reqs[k].payload, "primary_ip4")}

\* C29: the fix-up never attaches an address to a foreign device: a device
\* is re-submitted with a primary address only by the call that created
\* that address, for the device that owns the address, while the deferred
\* queue holds the pair of that address and that device
C29_NoForeignPrimaryAddress ==
    [][api_log' # api_log =>
          \A k \in SetsPrimary(LastCall(api_log')) :
              /\ LastCall(api_log').entity_type = "ip_addresses"
              /\ LastCall(api_log').reqs[k].coll = "dcim.devices"
              /\ CreatedAddress(nb, nb') # 0
              /\ LastCall(api_log').reqs[k].payload["primary_ip4"]
                     = IdStr(CreatedAddress(nb, nb'))
              /\ Has(LastCall(api_log').data, "device")
              /\ LastCall(api_log').reqs[k].payload["name"]
                     = LastCall(api_log').data["device"]
              /\ [ip4 |-> LastCall(api_log').data["address"],
                  device |-> LastCall(api_log').data["device"]]
                     \in QueuedPairs(primary_ips)]_vars

\* the address A of the device R1 was created while (A, R1) was queued and
\* while another device existed, and R1 was re-submitted with the address
C29_Witness ==
    /\ api_log # <<>>
    /\ LastCall(api_log).entity_type = "ip_addresses"
    /\ SetsPrimary(LastCall(api_log)) # {}
    /\ \A k \in SetsPrimary(LastCall(api_log)) : LastCall(api_log).reqs[k].ok
    /\ \E r \in nb : /\ r.coll = "dcim.devices"
                     /\ r.attrs["name"] = LastCall(api_log).data["device"]
                     /\ Has(r.attrs, "primary_ip4")
    /\ \E r \in nb : /\ r.coll = "dcim.devices"
                     /\ r.attrs["name"] # LastCall(api_log).data["device"]

\* the positions of the token requests of that kind
RequestsOf(kind) == {k \in 1..Len(token_requests) : token_requests[k] = kind}

\* C30: close() deletes a token only if the connection created it itself by
\* logging in with the user name and the password: every delete request
\* follows a create_token request of the same connection, and a connection
\* built with a token of the user sends no delete request, whatever calls
\* of connect() and close() are made on it
C30_OnlyOwnTokenDeleted ==
    /\ \A k \in RequestsOf("token.delete") :
           /\ connection._token_created
           /\ connection.token = "created"
           /\ \E j \in RequestsOf("create_token") : j < k
    /\ args.token # None => RequestsOf("token.delete") = {}

\* a connection built with a token of the user, and with a user name and a
\* password as well, was connected and closed twice
C30_Witness ==
    /\ args.token # None
    /\ args.username # None
    /\ args.password # None
    /\ acquired = 2
    /\ closed = 2
    /\ connection.api # None

====
